---- MODULE Spec2Model ----
(***************************************************************************)
(* Weather lookup service: TTL cache, upstream client, request handler.    *)
(*                                                                         *)
(* Strings are sequences of one-character strings.  A JavaScript value     *)
(* that may be null/undefined is a sequence of length 0 or 1 (Null, or     *)
(* Some(v)).  A string built by a template literal or by concatenation     *)
(* is the tuple of its parts.                                              *)
(***************************************************************************)
EXTENDS Integers, Sequences, FiniteSets, TLC

(***************************************************************************)
(* Bounds of the model.                                                    *)
(***************************************************************************)
MaxTime == 2        \* Date.now() ranges over 0..MaxTime
MaxTtl == 1         \* the cache is constructed with a TTL in 1..MaxTtl
MaxReq == 2         \* requests the server receives
MaxDays == 2        \* forecast days of an upstream payload

Null == <<>>
Some(v) == <<v>>

Min(S) == CHOOSE x \in S : \A y \in S : x <= y
Max(S) == CHOOSE x \in S : \A y \in S : x >= y

(***************************************************************************)
(* Characters and the string methods the code uses.                        *)
(***************************************************************************)
UpperLetters == {"A", "B"}
LowerLetters == {"a", "b"}

\* String.prototype.toLowerCase, one character
ToLowerChar(c) == CASE c = "A" -> "a" [] c = "B" -> "b" [] OTHER -> c

\* the characters String.prototype.trim strips and the regex class \s matches
IsWhiteSpace(c) == c \in {" ", "\t"}

toLowerCase(s) == [i \in 1..Len(s) |-> ToLowerChar(s[i])]

trim(s) ==
    LET keep == {i \in 1..Len(s) : ~IsWhiteSpace(s[i])}
    IN IF keep = {} THEN <<>> ELSE SubSeq(s, Min(keep), Max(keep))

Repeat(c, n) == [i \in 1..n |-> c]

(***************************************************************************)
(* Cache<T>: store is a Map from normalized key to {data, timestamp},      *)
(* modelled as a function whose domain is the set of keys present.         *)
(***************************************************************************)
EmptyStore == [k \in {} |-> 0]

DEFAULT_TTL_MS == 10 * 60 * 1000

\* constructor(ttlMs = DEFAULT_TTL_MS): the value of this.ttlMs, for the
\* argument ttlArg (Null when not given)
Cache_constructor(ttlArg) == IF ttlArg = Null THEN DEFAULT_TTL_MS ELSE ttlArg[1]

MapSet(st, k, e) == [x \in DOMAIN st \cup {k} |-> IF x = k THEN e ELSE st[x]]
MapDelete(st, k) == [x \in DOMAIN st \ {k} |-> st[x]]

normalizeKey_NoTrim(key) == toLowerCase(key)
normalizeKey(key) == trim(toLowerCase(key))

\* get(key): [ret |-> Null or Some(data), store |-> the store afterwards]
Cache_get_NoEvict(st, key, t, ttl) ==
    LET normalizedKey == normalizeKey(key)
    IN IF normalizedKey \notin DOMAIN st
       THEN [ret |-> Null, store |-> st]
       ELSE IF t - st[normalizedKey].timestamp > ttl
            THEN [ret |-> Null, store |-> st]
            ELSE [ret |-> Some(st[normalizedKey].data), store |-> st]
Cache_get_ExpireAtTtl(st, key, t, ttl) ==
    LET normalizedKey == normalizeKey(key)
    IN IF normalizedKey \notin DOMAIN st
       THEN [ret |-> Null, store |-> st]
       ELSE IF t - st[normalizedKey].timestamp >= ttl
            THEN [ret |-> Null, store |-> MapDelete(st, normalizedKey)]
            ELSE [ret |-> Some(st[normalizedKey].data), store |-> st]
Cache_get_Refresh(st, key, t, ttl) ==
    LET normalizedKey == normalizeKey(key)
    IN IF normalizedKey \notin DOMAIN st
       THEN [ret |-> Null, store |-> st]
       ELSE IF t - st[normalizedKey].timestamp > ttl
            THEN [ret |-> Null, store |-> MapDelete(st, normalizedKey)]
            ELSE [ret |-> Some(st[normalizedKey].data),
                  store |-> MapSet(st, normalizedKey,
                                   [data |-> st[normalizedKey].data, timestamp |-> t])]
Cache_get(st, key, t, ttl) ==
    LET normalizedKey == normalizeKey(key)
    IN IF normalizedKey \notin DOMAIN st
       THEN [ret |-> Null, store |-> st]
       ELSE IF t - st[normalizedKey].timestamp > ttl
            THEN [ret |-> Null, store |-> MapDelete(st, normalizedKey)]
            ELSE [ret |-> Some(st[normalizedKey].data), store |-> st]

\* set(key, data): the store afterwards
Cache_set_RawKey(st, key, data, t) ==
    MapSet(st, key, [data |-> data, timestamp |-> t])
Cache_set_KeepTimestamp(st, key, data, t) ==
    LET normalizedKey == normalizeKey(key)
    IN MapSet(st, normalizedKey,
              [data |-> data,
               timestamp |-> IF normalizedKey \in DOMAIN st
                             THEN st[normalizedKey].timestamp ELSE t])
Cache_set(st, key, data, t) ==
    MapSet(st, normalizeKey(key), [data |-> data, timestamp |-> t])

\* has(key): get(key) !== null, with get's effect on the store
Cache_has_Peek(st, key, t, ttl) ==
    [ret |-> Cache_get(st, key, t, ttl).ret # Null, store |-> st]
Cache_has(st, key, t, ttl) ==
    LET got == Cache_get(st, key, t, ttl)
    IN [ret |-> got.ret # Null, store |-> got.store]

\* delete(key): Map.delete's result and the store afterwards
Cache_delete_ReportsAbsent(st, key) ==
    [ret |-> FALSE, store |-> MapDelete(st, normalizeKey(key))]
Cache_delete_RawKey(st, key) ==
    [ret |-> key \in DOMAIN st, store |-> MapDelete(st, key)]
Cache_delete(st, key) ==
    LET normalizedKey == normalizeKey(key)
    IN [ret |-> normalizedKey \in DOMAIN st, store |-> MapDelete(st, normalizedKey)]

Cache_clear_Noop(st) == st
Cache_clear(st) == EmptyStore

\* size(): sweep the expired entries, then Map.size
Cache_size_CountAll(st, t, ttl) == [ret |-> Cardinality(DOMAIN st), store |-> st]
Cache_size(st, t, ttl) ==
    LET live == {k \in DOMAIN st : ~(t - st[k].timestamp > ttl)}
        swept == [k \in live |-> st[k]]
    IN [ret |-> Cardinality(DOMAIN swept), store |-> swept]

(***************************************************************************)
(* WeatherClient: error classes, response normalization, classification    *)
(* of the upstream outcome.  An error is [kind, message]; a message is     *)
(* the tuple of the parts it is concatenated from.                         *)
(***************************************************************************)
WeatherApiNotFoundError(message) ==
    [kind |-> "WeatherApiNotFoundError", message |-> message]
WeatherApiUpstreamError(message) ==
    [kind |-> "WeatherApiUpstreamError", message |-> message]
\* any other thrown value (TypeError, SyntaxError, ...)
OtherError(message) == [kind |-> "Error", message |-> message]

Returned(value) == [kind |-> "value", data |-> value]

normalizeDay_SumChance(day) ==
    [date |-> day.date,
     minC |-> day.day.mintemp_c,
     maxC |-> day.day.maxtemp_c,
     minF |-> day.day.mintemp_f,
     maxF |-> day.day.maxtemp_f,
     condition |-> day.day.condition.text,
     conditionIcon |-> day.day.condition.icon,
     precipChance |-> day.day.daily_chance_of_rain + day.day.daily_chance_of_snow]
normalizeDay(day) ==
    [date |-> day.date,
     minC |-> day.day.mintemp_c,
     maxC |-> day.day.maxtemp_c,
     minF |-> day.day.mintemp_f,
     maxF |-> day.day.maxtemp_f,
     condition |-> day.day.condition.text,
     conditionIcon |-> day.day.condition.icon,
     precipChance |-> Max({day.day.daily_chance_of_rain,
                           day.day.daily_chance_of_snow})]

normalizeResponse_DerivedF(data) ==
    [city |-> data.location.name,
     country |-> data.location.country,
     latitude |-> data.location.lat,
     longitude |-> data.location.lon,
     timezone |-> data.location.tz_id,
     current |-> [tempC |-> data.current.temp_c,
                  tempF |-> (data.current.temp_c * 9) \div 5 + 320,
                  condition |-> data.current.condition.text,
                  conditionIcon |-> data.current.condition.icon,
                  windKph |-> data.current.wind_kph,
                  humidity |-> data.current.humidity,
                  feelsLikeC |-> data.current.feelslike_c],
     forecast |-> [i \in 1..Len(data.forecast.forecastday) |->
                      normalizeDay(data.forecast.forecastday[i])]]
normalizeResponse(data) ==
    [city |-> data.location.name,
     country |-> data.location.country,
     latitude |-> data.location.lat,
     longitude |-> data.location.lon,
     timezone |-> data.location.tz_id,
     current |-> [tempC |-> data.current.temp_c,
                  tempF |-> data.current.temp_f,
                  condition |-> data.current.condition.text,
                  conditionIcon |-> data.current.condition.icon,
                  windKph |-> data.current.wind_kph,
                  humidity |-> data.current.humidity,
                  feelsLikeC |-> data.current.feelslike_c],
     forecast |-> [i \in 1..Len(data.forecast.forecastday) |->
                      normalizeDay(data.forecast.forecastday[i])]]

\* the fetch promise rejected with reason [isError, message]
FetchRejected_Rethrown(reason) == OtherError(<<reason.message>>)
FetchRejected(reason) ==
    WeatherApiUpstreamError(
        <<"Failed to connect to weather service: ",
          IF reason.isError THEN reason.message ELSE "Unknown error">>)

\* response.ok
ResponseOk(status) == status \in 200..299

\* errorData?.error?.code and errorData?.error?.message: Null when the body
\* did not parse (errorData = null) or lacks the field
ErrorCode(errorData) ==
    IF errorData = Null \/ errorData[1].error = Null
    THEN Null ELSE errorData[1].error[1].code
ErrorMessage(errorData) ==
    IF errorData = Null \/ errorData[1].error = Null
    THEN Null ELSE errorData[1].error[1].message

\* the throw of the !response.ok branch; errorData is Null or Some(json)
ClassifyErrorResponse_StatusFirst(status, errorData) ==
    IF status = 401 \/ status = 403
    THEN WeatherApiUpstreamError(<<"Invalid API key">>)
    ELSE IF status = 429
    THEN WeatherApiUpstreamError(<<"Rate limit exceeded">>)
    ELSE IF ErrorCode(errorData) = Some(1006)
    THEN WeatherApiNotFoundError(<<"City not found">>)
    ELSE WeatherApiUpstreamError(
            IF ErrorMessage(errorData) # Null
            THEN <<ErrorMessage(errorData)[1]>>
            ELSE <<"Weather API error: ", ToString(status)>>)
ClassifyErrorResponse_NoStatusCase(status, errorData) ==
    IF ErrorCode(errorData) = Some(1006)
    THEN WeatherApiNotFoundError(<<"City not found">>)
    ELSE WeatherApiUpstreamError(
            IF ErrorMessage(errorData) # Null
            THEN <<ErrorMessage(errorData)[1]>>
            ELSE <<"Weather API error: ", ToString(status)>>)
ClassifyErrorResponse(status, errorData) ==
    IF ErrorCode(errorData) = Some(1006)
    THEN WeatherApiNotFoundError(<<"City not found">>)
    ELSE IF status = 401 \/ status = 403
    THEN WeatherApiUpstreamError(<<"Invalid API key">>)
    ELSE IF status = 429
    THEN WeatherApiUpstreamError(<<"Rate limit exceeded">>)
    ELSE WeatherApiUpstreamError(
            IF ErrorMessage(errorData) # Null
            THEN <<ErrorMessage(errorData)[1]>>
            ELSE <<"Weather API error: ", ToString(status)>>)

\* a body is [parses, json]; json is [error, data], each Null or Some(..):
\* the provider's error object and the location/current/forecast blocks
\* response.json().catch(() => null)
JsonOrNull(body) == IF body.parses THEN Some(body.json) ELSE Null

\* lines 90-91 on a success response: the snapshot, or the error thrown by
\* response.json() (SyntaxError) or by normalizeResponse reading a missing
\* block (TypeError)
ParseAndNormalize_AsUpstream(body) ==
    IF ~body.parses
    THEN WeatherApiUpstreamError(<<"Unexpected token in JSON">>)
    ELSE IF body.json.data = Null
    THEN WeatherApiUpstreamError(<<"Cannot read properties of undefined">>)
    ELSE Returned(normalizeResponse(body.json.data[1]))
ParseAndNormalize(body) ==
    IF ~body.parses
    THEN OtherError(<<"Unexpected token in JSON">>)
    ELSE IF body.json.data = Null
    THEN OtherError(<<"Cannot read properties of undefined">>)
    ELSE Returned(normalizeResponse(body.json.data[1]))

(***************************************************************************)
(* createApp, GET /api/weather: validation of req.query.city and the       *)
(* mapping of getWeather's outcome to the response.  A query value is      *)
(* [type |-> "undefined"], [type |-> "object"] (a repeated or nested       *)
(* parameter) or [type |-> "string", value |-> s].                         *)
(***************************************************************************)
MaxCityLength == 100

\* /^[a-zA-Z\s\-',.]+$/
AllowedChar(c) ==
    \/ c \in LowerLetters \/ c \in UpperLetters
    \/ IsWhiteSpace(c)
    \/ c \in {"-", "'", ",", "."}
validCityRegex(s) == Len(s) >= 1 /\ \A i \in 1..Len(s) : AllowedChar(s[i])

Reject(message) == [valid |-> FALSE, response |-> [status |-> 400, body |-> [error |-> message]]]

ValidateCity_RegexBeforeLength(city) ==
    IF city.type # "string"
    THEN Reject("Missing required parameter: city")
    ELSE LET trimmedCity == trim(city.value)
         IN IF Len(trimmedCity) = 0
            THEN Reject("City parameter cannot be empty")
            ELSE IF ~validCityRegex(trimmedCity)
            THEN Reject("City parameter contains invalid characters")
            ELSE IF Len(trimmedCity) > MaxCityLength
            THEN Reject("City parameter is too long (max 100 characters)")
            ELSE [valid |-> TRUE, trimmedCity |-> trimmedCity]
ValidateCity_UndefinedOnly(city) ==
    IF city.type = "undefined"
    THEN Reject("Missing required parameter: city")
    ELSE IF city.type # "string"
    THEN Reject("City parameter contains invalid characters")
    ELSE LET trimmedCity == trim(city.value)
         IN IF Len(trimmedCity) = 0
            THEN Reject("City parameter cannot be empty")
            ELSE IF Len(trimmedCity) > MaxCityLength
            THEN Reject("City parameter is too long (max 100 characters)")
            ELSE IF ~validCityRegex(trimmedCity)
            THEN Reject("City parameter contains invalid characters")
            ELSE [valid |-> TRUE, trimmedCity |-> trimmedCity]
ValidateCity_PassUntrimmed(city) ==
    IF city.type # "string"
    THEN Reject("Missing required parameter: city")
    ELSE LET trimmedCity == trim(city.value)
         IN IF Len(trimmedCity) = 0
            THEN Reject("City parameter cannot be empty")
            ELSE IF Len(trimmedCity) > MaxCityLength
            THEN Reject("City parameter is too long (max 100 characters)")
            ELSE IF ~validCityRegex(trimmedCity)
            THEN Reject("City parameter contains invalid characters")
            ELSE [valid |-> TRUE, trimmedCity |-> city.value]
ValidateCity(city) ==
    IF city.type # "string"
    THEN Reject("Missing required parameter: city")
    ELSE LET trimmedCity == trim(city.value)
         IN IF Len(trimmedCity) = 0
            THEN Reject("City parameter cannot be empty")
            ELSE IF Len(trimmedCity) > MaxCityLength
            THEN Reject("City parameter is too long (max 100 characters)")
            ELSE IF ~validCityRegex(trimmedCity)
            THEN Reject("City parameter contains invalid characters")
            ELSE [valid |-> TRUE, trimmedCity |-> trimmedCity]

\* the try/catch around getWeather: outcome is Returned(..) or an error
RespondTo_LeakDetail(outcome) ==
    IF outcome.kind = "value"
    THEN [status |-> 200, body |-> outcome.data]
    ELSE IF outcome.kind = "WeatherApiNotFoundError"
    THEN [status |-> 404, body |-> [error |-> "City not found"]]
    ELSE IF outcome.kind = "WeatherApiUpstreamError"
    THEN [status |-> 502, body |-> [error |-> outcome.message[1]]]
    ELSE [status |-> 500, body |-> [error |-> "Internal server error"]]
RespondTo_NotFoundAs400(outcome) ==
    IF outcome.kind = "value"
    THEN [status |-> 200, body |-> outcome.data]
    ELSE IF outcome.kind = "WeatherApiNotFoundError"
    THEN [status |-> 400, body |-> [error |-> "City not found"]]
    ELSE IF outcome.kind = "WeatherApiUpstreamError"
    THEN [status |-> 502, body |-> [error |-> "Upstream weather service error"]]
    ELSE [status |-> 500, body |-> [error |-> "Internal server error"]]
RespondTo_UpstreamAs500(outcome) ==
    IF outcome.kind = "value"
    THEN [status |-> 200, body |-> outcome.data]
    ELSE IF outcome.kind = "WeatherApiNotFoundError"
    THEN [status |-> 404, body |-> [error |-> "City not found"]]
    ELSE [status |-> 500, body |-> [error |-> "Internal server error"]]
RespondTo(outcome) ==
    IF outcome.kind = "value"
    THEN [status |-> 200, body |-> outcome.data]
    ELSE IF outcome.kind = "WeatherApiNotFoundError"
    THEN [status |-> 404, body |-> [error |-> "City not found"]]
    ELSE IF outcome.kind = "WeatherApiUpstreamError"
    THEN [status |-> 502, body |-> [error |-> "Upstream weather service error"]]
    ELSE [status |-> 500, body |-> [error |-> "Internal server error"]]

(***************************************************************************)
(* Front end, api.ts: fetchWeather(city).  The body of a response from     *)
(* /api/weather is [parses, json] with json = [error, data]: the error     *)
(* property of an error body and the snapshot of a success body, each      *)
(* Null when absent.                                                       *)
(***************************************************************************)
ApiError(message, statusCode) ==
    [kind |-> "ApiError", message |-> message, statusCode |-> statusCode]

\* encodeURIComponent: letters and - _ . ! ~ * ' ( ) stay, any other
\* character becomes % and the two hex digits of its byte
Unreserved(c) ==
    \/ c \in LowerLetters \/ c \in UpperLetters
    \/ c \in {"-", "_", ".", "!", "~", "*", "'", "(", ")"}
PercentEncoded(c) ==
    CASE c = " " -> <<"%", "2", "0">>
      [] c = "\t" -> <<"%", "0", "9">>
      [] c = "," -> <<"%", "2", "C">>
      [] c = "&" -> <<"%", "2", "6">>
      [] c = "%" -> <<"%", "2", "5">>
RECURSIVE encodeURIComponent(_)
encodeURIComponent(s) ==
    IF s = <<>> THEN <<>>
    ELSE (IF Unreserved(Head(s)) THEN <<Head(s)>> ELSE PercentEncoded(Head(s)))
         \o encodeURIComponent(Tail(s))

\* lines 597-603: the throw for a blank city, or else the URL to fetch
fetchWeather_start_NoTrim(city) ==
    IF trim(city) = <<>>
    THEN [throws |-> Some(ApiError(<<"Please enter a city name">>, 400))]
    ELSE [throws |-> Null, trimmedCity |-> city,
          url |-> <<"/api/weather?city=">> \o encodeURIComponent(city)]
fetchWeather_start(city) ==
    LET trimmedCity == trim(city)
    IN IF trimmedCity = <<>>
       THEN [throws |-> Some(ApiError(<<"Please enter a city name">>, 400))]
       ELSE [throws |-> Null, trimmedCity |-> trimmedCity,
             url |-> <<"/api/weather?city=">> \o encodeURIComponent(trimmedCity)]

\* the catch around await fetch(url)
fetchWeather_catch ==
    ApiError(<<"Unable to connect to the weather service. Please check your connection.">>, 0)

\* errorData?.error ?? fallback
ErrorOr(errorData, fallback) ==
    IF errorData = Null \/ errorData[1].error = Null
    THEN fallback ELSE errorData[1].error[1]

\* the throw of the !response.ok branch; errorData is Null or Some(json)
fetchWeather_notOk_Other400(status, errorData, trimmedCity) ==
    IF status = 400
    THEN ApiError(ErrorOr(errorData, <<"Invalid request">>), 400)
    ELSE IF status = 404
    THEN ApiError(<<"City \"", trimmedCity,
                    "\" not found. Please check the spelling and try again.">>, 404)
    ELSE IF status = 502
    THEN ApiError(<<"The weather service is temporarily unavailable. Please try again later.">>,
                  502)
    ELSE ApiError(ErrorOr(errorData, <<"An unexpected error occurred">>), 400)
fetchWeather_notOk(status, errorData, trimmedCity) ==
    IF status = 400
    THEN ApiError(ErrorOr(errorData, <<"Invalid request">>), 400)
    ELSE IF status = 404
    THEN ApiError(<<"City \"", trimmedCity,
                    "\" not found. Please check the spelling and try again.">>, 404)
    ELSE IF status = 502
    THEN ApiError(<<"The weather service is temporarily unavailable. Please try again later.">>,
                  502)
    ELSE ApiError(ErrorOr(errorData, <<"An unexpected error occurred">>), status)

\* lines 638-640 on a success response: the parsed body as it is, or the
\* SyntaxError that response.json() rejects with
fetchWeather_ok(body) ==
    IF body.parses THEN Returned(body.json)
    ELSE OtherError(<<"Unexpected token in JSON">>)

(***************************************************************************)
(* Front end, render.ts.  A page is the module's elements reference (set   *)
(* or null), whether each of the three panels carries the class 'hidden',  *)
(* the text of the error message, the location line of the current         *)
(* weather section and the cards of the forecast list.                     *)
(***************************************************************************)
Panels == {"loadingState", "errorState", "weatherData"}

\* classList.add('hidden') on the panels of hide, classList.remove('hidden')
\* on the panel show
SetHidden(p, show, hide) ==
    [p EXCEPT !.hidden = [e \in Panels |->
                            IF e \in hide THEN TRUE
                            ELSE IF e \in show THEN FALSE
                            ELSE p.hidden[e]]]

initializeElements(p) == [p EXCEPT !.elements = TRUE]

showLoading_KeepError(p) ==
    IF ~p.elements THEN p
    ELSE SetHidden(p, {"loadingState"}, {"weatherData"})
showLoading(p) ==
    IF ~p.elements THEN p
    ELSE SetHidden(p, {"loadingState"}, {"errorState", "weatherData"})

showError(p, message) ==
    IF ~p.elements THEN p
    ELSE [SetHidden(p, {"errorState"}, {"loadingState", "weatherData"})
            EXCEPT !.errorMessage = message]

\* format.ts
formatLocation(city, country) == <<city, ", ", country>>
formatPrecipChance(percent) == IF percent = 0 THEN <<>> ELSE <<percent, "% rain">>

\* Math.round of a number given in tenths
MathRound(tenths) == (tenths + 5) \div 10
\* formatTemperature(tempC, tempF) with the default unit 'C'
formatTemperature(tempC, tempF) == <<MathRound(tempC), "\\u00B0C">>

\* the day of the month and the weekday of a date string (January 2024)
DayOfMonth(dateString) ==
    CASE dateString = "2024-01-15" -> 15
      [] dateString = "2024-01-16" -> 16
      [] dateString = "2024-01-17" -> 17
WeekdayShort(dateString) ==
    CASE dateString = "2024-01-15" -> "Mon"
      [] dateString = "2024-01-16" -> "Tue"
      [] dateString = "2024-01-17" -> "Wed"
\* formatDayOfWeek(dateString) on the day of the month today
formatDayOfWeek(dateString, today) ==
    IF DayOfMonth(dateString) = today THEN "Today"
    ELSE IF DayOfMonth(dateString) = today + 1 THEN "Tomorrow"
    ELSE WeekdayShort(dateString)

\* the card of a forecast day: its day of the week, condition, high and low
\* and, when the chance of precipitation formats to a non-empty text, that
\* text
createForecastCard(day, today) ==
    [className |-> "forecast-card",
     date |-> formatDayOfWeek(day.date, today),
     condition |-> day.condition,
     high |-> formatTemperature(day.maxC, day.maxF),
     low |-> formatTemperature(day.minC, day.minF),
     precip |-> IF formatPrecipChance(day.precipChance) # <<>>
                THEN Some(formatPrecipChance(day.precipChance)) ELSE Null]

renderCurrentWeather(p, data) ==
    [p EXCEPT !.shown = Some([locationName |-> formatLocation(data.city, data.country),
                              condition |-> data.current.condition])]

\* innerHTML = '' and one appendChild per day
renderForecast_Append(p, forecast, today) ==
    [p EXCEPT !.forecastList =
        @ \o [i \in 1..Len(forecast) |-> createForecastCard(forecast[i], today)]]
renderForecast(p, forecast, today) ==
    [p EXCEPT !.forecastList =
        [i \in 1..Len(forecast) |-> createForecastCard(forecast[i], today)]]

showWeatherData(p, data, today) ==
    IF ~p.elements THEN p
    ELSE renderForecast(
            renderCurrentWeather(
                SetHidden(p, {"weatherData"}, {"loadingState", "errorState"}), data),
            data.forecast, today)

hideAllStates(p) ==
    IF ~p.elements THEN p
    ELSE SetHidden(p, {}, {"loadingState", "errorState", "weatherData"})

(***************************************************************************)
(* Front end, main.ts.  The state object and the disabled flags of the two *)
(* form controls; searchWeather runs to its await of fetchWeather, and     *)
(* from the settling of that call to its end.                              *)
(***************************************************************************)
\* lines 110-113
setFormDisabled(a, disabled) ==
    [a EXCEPT !.disabled = [cityInput |-> disabled, searchButton |-> disabled]]

\* lines 77-84, up to the call of fetchWeather: atFetch keeps the state
\* the call is made in
searchWeather_start_RecordLater(a, city) ==
    LET a1 == setFormDisabled([a EXCEPT !.uiState = "loading"], TRUE)
    IN [a1 EXCEPT !.atFetch = Some([lastSearchedCity |-> a1.lastSearchedCity,
                                    uiState |-> a1.uiState,
                                    disabled |-> a1.disabled]),
                  !.lastSearchedCity = Some(city)]
searchWeather_start(a, city) ==
    LET a1 == setFormDisabled([a EXCEPT !.lastSearchedCity = Some(city),
                                        !.uiState = "loading"], TRUE)
    IN [a1 EXCEPT !.atFetch = Some([lastSearchedCity |-> a1.lastSearchedCity,
                                    uiState |-> a1.uiState,
                                    disabled |-> a1.disabled])]

\* lines 86-88: the state once fetchWeather has returned data
searchWeather_try(a, data) ==
    [a EXCEPT !.weatherData = Some(data), !.uiState = "success",
              !.errorMessage = Null]

\* lines 91-99: the state once fetchWeather, or the rendering, has thrown
searchWeather_catch_KeepData(a, error) ==
    [a EXCEPT !.uiState = "error",
              !.errorMessage =
                  Some(IF error.kind = "ApiError" THEN error.message
                       ELSE <<"An unexpected error occurred. Please try again.">>)]
searchWeather_catch(a, error) ==
    [a EXCEPT !.uiState = "error", !.weatherData = Null,
              !.errorMessage =
                  Some(IF error.kind = "ApiError" THEN error.message
                       ELSE <<"An unexpected error occurred. Please try again.">>)]

\* showWeatherData(data) on an object that is no snapshot: the panels are
\* switched and the location line is written from the missing city and
\* country before the read of data.current.conditionIcon throws
showWeatherData_throws(p) ==
    [SetHidden(p, {"weatherData"}, {"loadingState", "errorState"})
        EXCEPT !.shown = Some([locationName |-> formatLocation("undefined", "undefined"),
                               condition |-> IF p.shown = Null THEN ""
                                             ELSE p.shown[1].condition])]

\* lines 90-104: fetchWeather, or the rendering, has thrown error; the
\* state object and the page at the end of searchWeather
searchWeather_threw_StaysDisabled(a, p, error) ==
    LET a1 == searchWeather_catch(a, error)
    IN [app |-> a1, page |-> showError(p, a1.errorMessage[1])]
searchWeather_threw(a, p, error) ==
    LET a1 == searchWeather_catch(a, error)
    IN [app |-> setFormDisabled(a1, FALSE),
        page |-> showError(p, a1.errorMessage[1])]

\* lines 85-104: fetchWeather has returned data, the parsed body, which is
\* a snapshot when its data is there; the state object and the page at the
\* end of searchWeather
searchWeather_returned(a, p, data, today) ==
    LET a1 == searchWeather_try(a, data)
    IN IF data.data # Null
       THEN [app |-> setFormDisabled(a1, FALSE),
             page |-> showWeatherData(p, data.data[1], today)]
       ELSE searchWeather_threw(a1, showWeatherData_throws(p),
                                OtherError(<<"TypeError">>))

\* lines 55-61: the city handleSearch searches for, null when the input is
\* blank
handleSearch(value) == IF trim(value) = <<>> THEN Null ELSE Some(trim(value))

\* lines 68-70: the city handleRetry searches for, null when there is none
handleRetry(a) ==
    IF a.lastSearchedCity # Null /\ a.lastSearchedCity[1] # <<>>
    THEN a.lastSearchedCity ELSE Null

(***************************************************************************)
(* State.                                                                  *)
(***************************************************************************)
VARIABLES
    store,      \* Cache.store
    ttlMs,      \* Cache.ttlMs
    now,        \* Date.now()
    lastOp,     \* history: the last cache operation, its arguments, result and pre-store
    req,        \* the requests: progress, inputs, outcome, response
    api,        \* front end: the fetchWeather call, its progress, fetches and outcome
    page,       \* front end: the elements of render.ts and their classes and content
    app         \* front end: the state object and the form controls of main.ts

vars == <<store, ttlMs, now, lastOp, req, api, page, app>>

Reqs == 1..MaxReq

\* a request not yet received.  query: req.query.city; city: the argument of
\* getWeather; fetches: calls of fetchFn; fetched: what the fetch settled
\* with; outcome: what getWeather returned or threw; response: what was sent;
\* responses: how many responses were sent.  History: found is the entry the
\* cache held under the city's key when getWeather was called, storedAt the
\* time of this call's cache.set, prior the earlier calls for the same city
\* (up to letter case) that had completed successfully, with a cache entry
\* stored at most ttlMs before this call was made.
IdleReq ==
    [pc |-> "idle", query |-> Null, city |-> Null, fetches |-> 0,
     fetched |-> Null, outcome |-> Null, response |-> Null, responses |-> 0,
     found |-> Null, storedAt |-> Null, prior |-> {}]

\* front end: no fetchWeather call made yet
IdleCall ==
    [pc |-> "idle", city |-> Null, trimmedCity |-> Null, requests |-> <<>>,
     fetched |-> Null, outcome |-> Null]

\* front end: main.ts as loaded: the state object, the two form controls
\* enabled, and no fetch made yet (atFetch is history: the state object
\* and the controls as they were when fetch was last called)
IdleApp ==
    [uiState |-> "idle", weatherData |-> Null, errorMessage |-> Null,
     lastSearchedCity |-> Null,
     disabled |-> [cityInput |-> FALSE, searchButton |-> FALSE],
     atFetch |-> Null]

\* front end: render.ts before initializeElements (elements = null), over a
\* document whose three panels carry the class 'hidden'
NoPage ==
    [elements |-> FALSE,
     hidden |-> [loadingState |-> TRUE, errorState |-> TRUE, weatherData |-> TRUE],
     errorMessage |-> <<>>, shown |-> Null, forecastList |-> <<>>]

(***************************************************************************)
(* The cache driven directly (the cache test-suite's view of it).          *)
(***************************************************************************)
KeyLetters == {"a", "A", "b"}
Pads == {<<>>, <<" ">>}
Keys == {p \o <<c>> \o p : p \in Pads, c \in KeyLetters}
Values == {"v1", "v2"}

NoOp == [op |-> "none"]

\* history: the Cache.set that the operation now recorded follows directly
\* (clock ticks apart), if any, with the entry that set overwrote (prev)
After ==
    IF lastOp.op = "set"
    THEN Some([key |-> lastOp.key, data |-> lastOp.data, at |-> lastOp.at,
               prev |-> lastOp.prev])
    ELSE Null

\* history: the keys that the Cache.clear the operation now recorded follows
\* directly (clock ticks apart) removed, if any
Cleared == IF lastOp.op = "clear" THEN Some(lastOp.keys) ELSE Null

InitCache ==
    /\ store = EmptyStore
    /\ ttlMs \in 1..MaxTtl
    /\ now = 0
    /\ lastOp = NoOp
    /\ req = [r \in Reqs |-> IdleReq]
    /\ api = IdleCall
    /\ page = NoPage
    /\ app = IdleApp

Tick ==
    /\ now < MaxTime
    /\ now' = now + 1
    /\ lastOp' = IF lastOp.op \in {"set", "clear"} THEN lastOp ELSE [op |-> "tick"]
    /\ UNCHANGED <<store, ttlMs, req, api, page, app>>

Get ==
    \E key \in Keys :
        LET r == Cache_get(store, key, now, ttlMs)
        IN /\ store' = r.store
           /\ lastOp' = [op |-> "get", key |-> key, ret |-> r.ret, pre |-> store,
                         after |-> After, cleared |-> Cleared]
           /\ UNCHANGED <<ttlMs, now, req, api, page, app>>

Set ==
    \E key \in Keys, data \in Values :
        /\ store' = Cache_set(store, key, data, now)
        /\ lastOp' = [op |-> "set", key |-> key, data |-> data, at |-> now,
                      prev |-> IF normalizeKey(key) \in DOMAIN store
                               THEN Some(store[normalizeKey(key)]) ELSE Null]
        /\ UNCHANGED <<ttlMs, now, req, api, page, app>>

Has ==
    \E key \in Keys :
        LET r == Cache_has(store, key, now, ttlMs)
        IN /\ store' = r.store
           /\ lastOp' = [op |-> "has", key |-> key, ret |-> r.ret, pre |-> store,
                         after |-> After, cleared |-> Cleared]
           /\ UNCHANGED <<ttlMs, now, req, api, page, app>>

Delete ==
    \E key \in Keys :
        LET r == Cache_delete(store, key)
        IN /\ store' = r.store
           /\ lastOp' = [op |-> "delete", key |-> key, ret |-> r.ret, pre |-> store,
                         after |-> After, cleared |-> Cleared]
           /\ UNCHANGED <<ttlMs, now, req, api, page, app>>

Clear ==
    /\ store' = Cache_clear(store)
    /\ lastOp' = [op |-> "clear", keys |-> DOMAIN store]
    /\ UNCHANGED <<ttlMs, now, req, api, page, app>>

Size ==
    LET r == Cache_size(store, now, ttlMs)
    IN /\ store' = r.store
       /\ lastOp' = [op |-> "size", ret |-> r.ret, pre |-> store, cleared |-> Cleared]
       /\ UNCHANGED <<ttlMs, now, req, api, page, app>>

NextCache == Tick \/ Get \/ Set \/ Has \/ Delete \/ Clear \/ Size

SpecCache == InitCache /\ [][NextCache]_vars

(***************************************************************************)
(* The server: requests handled concurrently over one WeatherClient and    *)
(* its cache.  An action is one run of the event loop: the handler up to   *)
(* its first pending await, or the continuation of an await through to     *)
(* the response.                                                           *)
(***************************************************************************)
QString(s) == [type |-> "string", value |-> s]

\* upstream payloads (location, current, forecast blocks), temperatures in
\* tenths of a degree
ForecastDayOf(date, rain, snow) ==
    [date |-> date,
     day |-> [mintemp_c |-> 21, maxtemp_c |-> 85, mintemp_f |-> 358, maxtemp_f |-> 473,
              condition |-> [text |-> "Sunny", icon |-> "//cdn/113.png"],
              daily_chance_of_rain |-> rain, daily_chance_of_snow |-> snow]]
ApiResponseOf(name, tempC, tempF) ==
    [location |-> [name |-> name, country |-> "United States of America",
                   lat |-> 4236, lon |-> -7106, tz_id |-> "America/New_York"],
     current |-> [temp_c |-> tempC, temp_f |-> tempF,
                  condition |-> [text |-> "Partly cloudy", icon |-> "//cdn/116.png"],
                  wind_kph |-> 201, humidity |-> 65, feelslike_c |-> 25],
     forecast |-> [forecastday |-> <<ForecastDayOf("2024-01-15", 10, 35)>>]]

JsonBody(error, data) == [parses |-> TRUE, json |-> [error |-> error, data |-> data]]
Unparseable == [parses |-> FALSE]
ProviderError(code, message) == Some([code |-> code, message |-> message])

Rejected(reason) == [settled |-> "rejected", reason |-> reason]
Resolved(status, body) == [settled |-> "resolved", status |-> status, body |-> body]

\* lines 43-46: the cache lookup that opens getWeather
getWeather_lookup_NoCache(st, city, t, ttl) == [ret |-> Null, store |-> st]
getWeather_lookup_Sliding(st, city, t, ttl) == Cache_get_Refresh(st, city, t, ttl)
getWeather_lookup(st, city, t, ttl) == Cache_get(st, city, t, ttl)

Finish(rec, outcome) ==
    [rec EXCEPT !.pc = "done", !.outcome = Some(outcome),
                !.response = Some(RespondTo(outcome)), !.responses = @ + 1]

Succeeded(c) ==
    req[c].pc = "done" /\ req[c].outcome # Null /\ req[c].outcome[1].kind = "value"

\* the store time of the cache entry a successful call wrote or was served
EntryAt(c) ==
    IF req[c].storedAt # Null THEN req[c].storedAt[1] ELSE req[c].found[1].timestamp

\* the earlier calls whose result this call may expect to be served
PriorCalls(city) ==
    {c \in Reqs : /\ Succeeded(c)
                  /\ toLowerCase(req[c].city[1]) = toLowerCase(city)
                  /\ now - EntryAt(c) <= ttlMs}

\* the handler from the arrival of the request to its 400 response, to the
\* response served from the cache, or to the pending fetch
HandleRequest(r, q) ==
    /\ req[r].pc = "idle"
    /\ \A x \in Reqs : x < r => req[x].pc # "idle"
    /\ LET v == ValidateCity(q)
       IN IF ~v.valid
          THEN /\ req' = [req EXCEPT ![r] = [@ EXCEPT !.pc = "done", !.query = Some(q),
                                                      !.response = Some(v.response),
                                                      !.responses = @ + 1]]
               /\ store' = store
          ELSE LET city == v.trimmedCity
                   k == normalizeKey(city)
                   cached == getWeather_lookup(store, city, now, ttlMs)
                   called == [req[r] EXCEPT
                                 !.query = Some(q), !.city = Some(city),
                                 !.found = IF k \in DOMAIN store THEN Some(store[k]) ELSE Null,
                                 !.prior = PriorCalls(city)]
               IN /\ store' = cached.store
                  /\ req' = [req EXCEPT ![r] =
                               IF cached.ret # Null
                               THEN Finish(called, Returned(cached.ret[1]))
                               ELSE [called EXCEPT !.pc = "fetching", !.fetches = @ + 1]]
    /\ UNCHANGED <<ttlMs, now, lastOp, api, page, app>>

\* the fetch promise settles: rejected with a reason, or resolved with a
\* response whose body is still to be read (reason is Null)
FetchSettles_Retry(r, reason) ==
    /\ req[r].pc = "fetching"
    /\ req' = [req EXCEPT ![r] =
                 IF reason # Null
                 THEN IF @.fetches < 2
                      THEN [@ EXCEPT !.fetches = @ + 1]
                      ELSE Finish([@ EXCEPT !.fetched = Some(Rejected(reason[1]))],
                                  FetchRejected(reason[1]))
                 ELSE [@ EXCEPT !.pc = "reading"]]
    /\ UNCHANGED <<store, ttlMs, now, lastOp, api, page, app>>
FetchSettles_BehindHung(r, reason) ==
    /\ req[r].pc = "fetching"
    /\ \A c \in Reqs : req[c].pc # "hung"
    /\ req' = [req EXCEPT ![r] =
                 IF reason # Null
                 THEN Finish([@ EXCEPT !.fetched = Some(Rejected(reason[1]))],
                             FetchRejected(reason[1]))
                 ELSE [@ EXCEPT !.pc = "reading"]]
    /\ UNCHANGED <<store, ttlMs, now, lastOp, api, page, app>>
FetchSettles(r, reason) ==
    /\ req[r].pc = "fetching"
    /\ req' = [req EXCEPT ![r] =
                 IF reason # Null
                 THEN Finish([@ EXCEPT !.fetched = Some(Rejected(reason[1]))],
                             FetchRejected(reason[1]))
                 ELSE [@ EXCEPT !.pc = "reading"]]
    /\ UNCHANGED <<store, ttlMs, now, lastOp, api, page, app>>

\* response.json() settles on the response o: classification of an error
\* response, or normalization, cache.set and return
BodyRead_FirstWriteWins(r, o) ==
    /\ req[r].pc = "reading"
    /\ LET outcome == IF ~ResponseOk(o.status)
                      THEN ClassifyErrorResponse(o.status, JsonOrNull(o.body))
                      ELSE ParseAndNormalize(o.body)
       IN IF outcome.kind = "value"
          THEN /\ store' = IF normalizeKey(req[r].city[1]) \in DOMAIN store
                           THEN store
                           ELSE Cache_set(store, req[r].city[1], outcome.data, now)
               /\ req' = [req EXCEPT ![r] =
                            Finish([@ EXCEPT !.fetched = Some(o), !.storedAt = Some(now)],
                                   outcome)]
          ELSE /\ store' = store
               /\ req' = [req EXCEPT ![r] = Finish([@ EXCEPT !.fetched = Some(o)], outcome)]
    /\ UNCHANGED <<ttlMs, now, lastOp, api, page, app>>
BodyRead_SkipAfterClear(r, o) ==
    /\ req[r].pc = "reading"
    /\ LET outcome == IF ~ResponseOk(o.status)
                      THEN ClassifyErrorResponse(o.status, JsonOrNull(o.body))
                      ELSE ParseAndNormalize(o.body)
       IN IF outcome.kind = "value"
          THEN /\ store' = IF lastOp.op = "clearCache"
                           THEN store
                           ELSE Cache_set(store, req[r].city[1], outcome.data, now)
               /\ req' = [req EXCEPT ![r] =
                            Finish([@ EXCEPT !.fetched = Some(o), !.storedAt = Some(now)],
                                   outcome)]
          ELSE /\ store' = store
               /\ req' = [req EXCEPT ![r] = Finish([@ EXCEPT !.fetched = Some(o)], outcome)]
    /\ UNCHANGED <<ttlMs, now, lastOp, api, page, app>>
BodyRead_CachesFailure(r, o) ==
    /\ req[r].pc = "reading"
    /\ LET outcome == IF ~ResponseOk(o.status)
                      THEN ClassifyErrorResponse(o.status, JsonOrNull(o.body))
                      ELSE ParseAndNormalize(o.body)
       IN /\ store' = Cache_set(store, req[r].city[1],
                                IF outcome.kind = "value" THEN outcome.data ELSE outcome, now)
          /\ req' = [req EXCEPT ![r] =
                       Finish([@ EXCEPT !.fetched = Some(o),
                                        !.storedAt = IF outcome.kind = "value"
                                                     THEN Some(now) ELSE Null],
                              outcome)]
    /\ UNCHANGED <<ttlMs, now, lastOp, api, page, app>>
BodyRead(r, o) ==
    /\ req[r].pc = "reading"
    /\ LET outcome == IF ~ResponseOk(o.status)
                      THEN ClassifyErrorResponse(o.status, JsonOrNull(o.body))
                      ELSE ParseAndNormalize(o.body)
       IN IF outcome.kind = "value"
          THEN /\ store' = Cache_set(store, req[r].city[1], outcome.data, now)
               /\ req' = [req EXCEPT ![r] =
                            Finish([@ EXCEPT !.fetched = Some(o), !.storedAt = Some(now)],
                                   outcome)]
          ELSE /\ store' = store
               /\ req' = [req EXCEPT ![r] = Finish([@ EXCEPT !.fetched = Some(o)], outcome)]
    /\ UNCHANGED <<ttlMs, now, lastOp, api, page, app>>

ClearCache_ResetsTtl ==
    /\ store' = Cache_clear(store)
    /\ lastOp' = [op |-> "clearCache"]
    /\ ttlMs' = DEFAULT_TTL_MS
    /\ UNCHANGED <<now, req, api, page, app>>
ClearCache_Noop ==
    /\ store' = store
    /\ lastOp' = [op |-> "clearCache"]
    /\ UNCHANGED <<ttlMs, now, req, api, page, app>>
ClearCache ==
    /\ store' = Cache_clear(store)
    /\ lastOp' = [op |-> "clearCache"]
    /\ UNCHANGED <<ttlMs, now, req, api, page, app>>

GetCacheSize ==
    LET r == Cache_size(store, now, ttlMs)
    IN /\ store' = r.store
       /\ lastOp' = [op |-> "getCacheSize", ret |-> r.ret]
       /\ UNCHANGED <<ttlMs, now, req, api, page, app>>

Queries == {[type |-> "undefined"], QString(<<"a">>), QString(<<" ", "A">>)}
Payloads == {ApiResponseOf("Boston", 55, 419), ApiResponseOf("Boston", 61, 430)}
Faults == {[isError |-> TRUE, message |-> "Network error"]}
Responses ==
    {Resolved(400, JsonBody(ProviderError(Some(1006), Some("No matching location found.")), Null))}
    \cup {Resolved(200, JsonBody(Null, Some(p))) : p \in Payloads}
    \cup {Resolved(200, Unparseable)}

Init ==
    /\ store = EmptyStore
    /\ ttlMs = MaxTtl
    /\ now = 0
    /\ lastOp = NoOp
    /\ req = [r \in Reqs |-> IdleReq]
    /\ api = IdleCall
    /\ page = NoPage
    /\ app = IdleApp

Request == \E r \in Reqs, q \in Queries : HandleRequest(r, q)
Settle == \E r \in Reqs, reason \in {Null} \cup {Some(f) : f \in Faults} : FetchSettles(r, reason)
Read == \E r \in Reqs, o \in Responses : BodyRead(r, o)

Next == Request \/ Settle \/ Read \/ ClearCache \/ GetCacheSize \/ Tick

Spec == Init /\ [][Next]_vars

(***************************************************************************)
(* The server with upstream calls that may hang: a pending fetch, or a     *)
(* pending read of the response body, may never settle.  The calls that    *)
(* do not hang settle, and the event loop then runs their continuation.    *)
(* The clock stands still: no step of a request waits for the time.        *)
(***************************************************************************)
Hang(r) ==
    /\ req[r].pc \in {"fetching", "reading"}
    /\ req' = [req EXCEPT ![r] = [@ EXCEPT !.pc = "hung"]]
    /\ UNCHANGED <<store, ttlMs, now, lastOp, api, page, app>>

HangUp == \E r \in Reqs : Hang(r)

NextLive == Request \/ Settle \/ Read \/ HangUp \/ ClearCache \/ GetCacheSize

Fairness ==
    \A r \in Reqs :
        /\ WF_vars(\E reason \in {Null} \cup {Some(f) : f \in Faults} : FetchSettles(r, reason))
        /\ WF_vars(\E o \in Responses : BodyRead(r, o))

SpecLive == Init /\ [][NextLive]_vars /\ Fairness

(***************************************************************************)
(* A cache constructed with or without a TTL argument, then used both      *)
(* directly and through a client serving one request.                      *)
(***************************************************************************)
\* the values of the Cache<WeatherResponse> of the server
Snapshots == {normalizeResponse(p) : p \in Payloads}

\* the calls of the methods of the cache: the method and the store after it
CacheCalls ==
    {[op |-> "get", store |-> Cache_get(store, key, now, ttlMs).store] : key \in Keys}
    \cup {[op |-> "set", store |-> Cache_set(store, key, data, now)] :
             key \in Keys, data \in Snapshots}
    \cup {[op |-> "has", store |-> Cache_has(store, key, now, ttlMs).store] : key \in Keys}
    \cup {[op |-> "delete", store |-> Cache_delete(store, key).store] : key \in Keys}
    \cup {[op |-> "clear", store |-> Cache_clear(store)],
          [op |-> "size", store |-> Cache_size(store, now, ttlMs).store]}

CacheCall ==
    \E call \in CacheCalls :
        /\ store' = call.store
        /\ lastOp' = [op |-> call.op]
        /\ UNCHANGED <<ttlMs, now, req, api, page, app>>

RequestOne == \E q \in Queries : HandleRequest(1, q)
SettleOne == \E reason \in {Null} \cup {Some(f) : f \in Faults} : FetchSettles(1, reason)
ReadOne == \E o \in Responses : BodyRead(1, o)

TtlArgs == {Null} \cup {Some(t) : t \in 1..MaxTtl}

InitConstructed ==
    \E ttlArg \in TtlArgs :
        /\ store = EmptyStore
        /\ ttlMs = Cache_constructor(ttlArg)
        /\ now = 0
        /\ lastOp = [op |-> "new", ttlArg |-> ttlArg]
        /\ req = [r \in Reqs |-> IdleReq]
        /\ api = IdleCall
        /\ page = NoPage
        /\ app = IdleApp

NextConstructed ==
    CacheCall \/ RequestOne \/ SettleOne \/ ReadOne \/ ClearCache \/ GetCacheSize \/ Tick

SpecConstructed == InitConstructed /\ [][NextConstructed]_vars

(***************************************************************************)
(* One request, over every shape of query value and of upstream outcome.   *)
(***************************************************************************)
QueryChars == {"a", "A", " ", "'", "<"}
RunLengths == {0, 1, MaxCityLength}
WideQueries ==
    {[type |-> "undefined"], [type |-> "object"]}
    \cup {QString(Repeat(c1, n1) \o Repeat(c2, n2) \o Repeat(c3, n3)) :
             c1 \in QueryChars, n1 \in RunLengths,
             c2 \in QueryChars, n2 \in RunLengths,
             c3 \in QueryChars, n3 \in RunLengths}

WideFaults ==
    {[isError |-> TRUE, message |-> "Network error"],
     [isError |-> TRUE, message |-> "getaddrinfo ENOTFOUND api.weatherapi.com"],
     [isError |-> FALSE, message |-> "thrown string"]}
Statuses == {200, 400, 401, 403, 429, 500}
ProviderErrors ==
    {Null} \cup {ProviderError(code, message) :
                    code \in {Null, Some(1006), Some(2006)},
                    message \in {Null, Some("API key is invalid.")}}
Bodies ==
    {Unparseable}
    \cup {JsonBody(e, d) : e \in ProviderErrors,
                          d \in {Null, Some(ApiResponseOf("Boston", 55, 419))}}
WideResponses == {Resolved(status, body) : status \in Statuses, body \in Bodies}

RequestWide == \E q \in WideQueries : HandleRequest(1, q)
SettleWide == \E reason \in {Null} \cup {Some(f) : f \in WideFaults} : FetchSettles(1, reason)
ReadWide == \E o \in WideResponses : BodyRead(1, o)

NextRequest == RequestWide \/ SettleWide \/ ReadWide

SpecRequest == Init /\ [][NextRequest]_vars

(***************************************************************************)
(* Properties of the cache.                                                *)
(***************************************************************************)
IsRead == lastOp.op \in {"get", "has", "delete"}

\* the entry the recorded operation found under its normalized key, if any
PreEntry ==
    LET k == normalizeKey(lastOp.key)
    IN IF k \in DOMAIN lastOp.pre THEN Some(lastOp.pre[k]) ELSE Null

\* the store is pre with at most its entry under key k removed
OthersUntouched(pre, post, k) ==
    /\ DOMAIN pre \ {k} \subseteq DOMAIN post
    /\ DOMAIN post \subseteq DOMAIN pre
    /\ \A x \in DOMAIN post : post[x] = pre[x]

SameUpToCase(c, d) ==
    \/ c = d
    \/ <<c, d>> \in {<<"a", "A">>, <<"A", "a">>, <<"b", "B">>, <<"B", "b">>}

AllWhiteSpace(s, from, to) == \A x \in from..to : IsWhiteSpace(s[x])

\* a and b are the same characters up to letter case, between any amounts
\* of leading and trailing whitespace
DiffersOnlyInCaseOrPadding(a, b) ==
    \E i \in 1..Len(a) + 1, p \in 1..Len(b) + 1 :
        \E n \in 0..Len(a) :
            /\ i + n - 1 <= Len(a)
            /\ p + n - 1 <= Len(b)
            /\ AllWhiteSpace(a, 1, i - 1) /\ AllWhiteSpace(a, i + n, Len(a))
            /\ AllWhiteSpace(b, 1, p - 1) /\ AllWhiteSpace(b, p + n, Len(b))
            /\ \A x \in 0..n - 1 : SameUpToCase(a[i + x], b[p + x])

\* C1: after set(k1, v), a get, has or delete with a key k2 that differs from
\* k1 only in letter case or surrounding whitespace, made before the entry
\* expires, finds the entry set wrote: get returns v, has returns true, delete
\* returns true and removes it; and after set(k1, v) the store holds exactly
\* one entry under a key that differs from k1 only in case or whitespace.
C1_KeysNormalized ==
    /\ lastOp.op = "set" =>
          Cardinality({k \in DOMAIN store :
                          DiffersOnlyInCaseOrPadding(k, lastOp.key)}) = 1
    /\ (IsRead /\ lastOp.after # Null) =>
          LET w == lastOp.after[1]
          IN (DiffersOnlyInCaseOrPadding(w.key, lastOp.key) /\ now - w.at <= ttlMs) =>
                /\ PreEntry = Some([data |-> w.data, timestamp |-> w.at])
                /\ lastOp.op = "get" => lastOp.ret = Some(w.data)
                /\ lastOp.op = "has" => lastOp.ret = TRUE
                /\ lastOp.op = "delete" =>
                      /\ lastOp.ret = TRUE
                      /\ \A k \in DOMAIN store :
                            ~DiffersOnlyInCaseOrPadding(k, lastOp.key)

C1_Witness ==
    /\ lastOp.op = "get"
    /\ lastOp.after # Null
    /\ lastOp.after[1].key = <<" ", "A", " ">>
    /\ lastOp.key = <<"a">>
    /\ now > lastOp.after[1].at
    /\ lastOp.ret = Some(lastOp.after[1].data)

\* C2: get(key) returns the stored value exactly when an entry exists under
\* the normalized key with now - timestamp <= ttl, and then changes nothing;
\* otherwise it returns null, and the store afterwards is the store before
\* without the (expired) entry under that key, all other entries unchanged.
C2_GetLiveOrEvict ==
    lastOp.op = "get" =>
        LET k == normalizeKey(lastOp.key)
            pre == lastOp.pre
            live == k \in DOMAIN pre /\ now - pre[k].timestamp <= ttlMs
        IN /\ live => lastOp.ret = Some(pre[k].data) /\ store = pre
           /\ ~live => /\ lastOp.ret = Null
                       /\ k \notin DOMAIN store
                       /\ OthersUntouched(pre, store, k)

C2_Witness ==
    /\ lastOp.op = "get"
    /\ lastOp.ret = Null
    /\ PreEntry # Null
    /\ Cardinality(DOMAIN lastOp.pre) = 2
    /\ Cardinality(DOMAIN store) = 1

\* C3 as stated: get at timestamp + ttl - 1 returns the value and get at
\* timestamp + ttl returns null.
C3_ExpiredAtTtl ==
    (lastOp.op = "get" /\ PreEntry # Null) =>
        LET e == PreEntry[1]
        IN /\ now = e.timestamp + ttlMs - 1 => lastOp.ret = Some(e.data)
           /\ now = e.timestamp + ttlMs => lastOp.ret = Null

\* C3, amended: get at timestamp + ttl - 1 and at timestamp + ttl returns the
\* value; get at timestamp + ttl + 1 returns null.
C3_ExpiredAfterTtl ==
    (lastOp.op = "get" /\ PreEntry # Null) =>
        LET e == PreEntry[1]
        IN /\ now = e.timestamp + ttlMs - 1 => lastOp.ret = Some(e.data)
           /\ now = e.timestamp + ttlMs => lastOp.ret = Some(e.data)
           /\ now = e.timestamp + ttlMs + 1 => lastOp.ret = Null

C3_Witness ==
    /\ lastOp.op = "get"
    /\ PreEntry # Null
    /\ now = PreEntry[1].timestamp + ttlMs
    /\ lastOp.ret = Some(PreEntry[1].data)

(***************************************************************************)
(* Properties of the client and the handler.                               *)
(***************************************************************************)
Done(r) == req[r].pc = "done"
Called(r) == req[r].city # Null
Outcome(r) == req[r].outcome[1]
Response(r) == req[r].response[1]

\* C4 as stated: once a call for a city has completed successfully, a later
\* call for the same city up to letter case, made within the TTL, issues no
\* fetch and returns the same content.
C4_AnyLaterCallServed ==
    \A r \in Reqs : \A c \in req[r].prior :
        /\ req[r].fetches = 0
        /\ Done(r) => req[r].outcome = Some(Returned(Outcome(c).data))

\* C4, amended: the same, for the later calls made while the cache entry of
\* the first call (its content and store time) is still the one in the cache.
C4_ServedWhileEntryStands ==
    \A r \in Reqs : \A c \in req[r].prior :
        req[r].found = Some([data |-> Outcome(c).data, timestamp |-> EntryAt(c)]) =>
            /\ req[r].fetches = 0
            /\ Done(r)
            /\ req[r].outcome = Some(Returned(Outcome(c).data))

C4_Witness ==
    \E r \in Reqs : \E c \in req[r].prior :
        /\ req[c].fetches = 1
        /\ req[c].city # req[r].city
        /\ now > EntryAt(c)
        /\ req[r].fetches = 0
        /\ req[r].response = Some([status |-> 200, body |-> Outcome(c).data])

LeadingBlanks(s) ==
    IF \A i \in 1..Len(s) : IsWhiteSpace(s[i]) THEN Len(s)
    ELSE Min({i \in 1..Len(s) : ~IsWhiteSpace(s[i])}) - 1
TrailingBlanks(s) ==
    IF \A i \in 1..Len(s) : IsWhiteSpace(s[i]) THEN 0
    ELSE Len(s) - Max({i \in 1..Len(s) : ~IsWhiteSpace(s[i])})
TrimmedLength(s) == Len(s) - LeadingBlanks(s) - TrailingBlanks(s)
HasDisallowedChar(s) ==
    \E i \in 1..Len(s) : ~(\/ s[i] \in {"a", "A", "b", "B", " ", "\t"}
                           \/ s[i] \in {"-", "'", ",", "."})
BadRequest(message) == Some([status |-> 400, body |-> [error |-> message]])

\* C5: the response to a request is the 400 of the first check that fails,
\* in the order presence (a string), non-empty after trim, trimmed length
\* <= 100, allowed characters; a request that passes all four is not
\* answered 400.  A blank value longer than 100 is "cannot be empty"; a value
\* of trimmed length 101 holding a disallowed character is "too long".
C5_FirstFailingCheck ==
    \A r \in Reqs : req[r].query # Null =>
        LET q == req[r].query[1]
            s == q.value
        IN IF q.type # "string"
           THEN req[r].response = BadRequest("Missing required parameter: city")
           ELSE IF TrimmedLength(s) = 0
           THEN req[r].response = BadRequest("City parameter cannot be empty")
           ELSE IF TrimmedLength(s) > 100
           THEN req[r].response =
                    BadRequest("City parameter is too long (max 100 characters)")
           ELSE IF HasDisallowedChar(s)
           THEN req[r].response =
                    BadRequest("City parameter contains invalid characters")
           ELSE /\ Called(r)
                /\ req[r].response # Null => Response(r).status # 400

C5_Witness ==
    /\ req[1].query = Some(QString(Repeat("a", 100) \o <<"<">>))
    /\ req[1].response = BadRequest("City parameter is too long (max 100 characters)")

\* C6: once getWeather has returned or thrown, the response is 200 with the
\* snapshot returned, 404 "City not found" for WeatherApiNotFoundError, 502
\* "Upstream weather service error" for WeatherApiUpstreamError, and 500
\* "Internal server error" for any other error.
C6_OutcomeToStatus ==
    \A r \in Reqs : req[r].outcome # Null =>
        /\ req[r].response # Null
        /\ Response(r) =
             CASE Outcome(r).kind = "value" ->
                      [status |-> 200, body |-> Outcome(r).data]
               [] Outcome(r).kind = "WeatherApiNotFoundError" ->
                      [status |-> 404, body |-> [error |-> "City not found"]]
               [] Outcome(r).kind = "WeatherApiUpstreamError" ->
                      [status |-> 502, body |-> [error |-> "Upstream weather service error"]]
               [] OTHER ->
                      [status |-> 500, body |-> [error |-> "Internal server error"]]

C6_Witness ==
    /\ req[1].outcome # Null
    /\ Outcome(1).kind = "Error"
    /\ Response(1).status = 500

\* the request's fetch resolved with a response (it did not reject)
GotResponse(r) == req[r].fetched # Null /\ req[r].fetched[1].settled = "resolved"
Fetched(r) == req[r].fetched[1]

\* the provider error code / message carried by the body of the response
BodyCode(r) ==
    LET b == Fetched(r).body
    IN IF b.parses /\ b.json.error # Null THEN b.json.error[1].code ELSE Null
BodyMessage(r) ==
    LET b == Fetched(r).body
    IN IF b.parses /\ b.json.error # Null THEN b.json.error[1].message ELSE Null

\* C7 as stated: a response whose body carries provider code 1006 yields
\* WeatherApiNotFoundError whatever its HTTP status.
C7_Code1006AnyStatus ==
    \A r \in Reqs : (Done(r) /\ GotResponse(r) /\ BodyCode(r) = Some(1006)) =>
        Outcome(r).kind = "WeatherApiNotFoundError"

\* C7, amended: a non-success response (status outside 200..299) whose body
\* carries provider code 1006 yields WeatherApiNotFoundError whatever its
\* status, 401, 403 and 429 included.
C7_Code1006AnyErrorStatus ==
    \A r \in Reqs :
        (/\ Done(r) /\ GotResponse(r)
         /\ Fetched(r).status \notin 200..299
         /\ BodyCode(r) = Some(1006)) =>
            Outcome(r).kind = "WeatherApiNotFoundError"

C7_Witness ==
    /\ Done(1) /\ GotResponse(1)
    /\ Fetched(1).status = 429
    /\ BodyCode(1) = Some(1006)
    /\ Outcome(1).kind = "WeatherApiNotFoundError"

\* C8: a non-success response without provider code 1006 yields
\* WeatherApiUpstreamError, with message "Invalid API key" for 401 and 403,
\* "Rate limit exceeded" for 429, and otherwise the provider's message when
\* the body carries one, else "Weather API error: <status>".
C8_UpstreamErrorMessages ==
    \A r \in Reqs :
        (/\ Done(r) /\ GotResponse(r)
         /\ Fetched(r).status \notin 200..299
         /\ BodyCode(r) # Some(1006)) =>
            /\ Outcome(r).kind = "WeatherApiUpstreamError"
            /\ Outcome(r).message =
                 CASE Fetched(r).status \in {401, 403} -> <<"Invalid API key">>
                   [] Fetched(r).status = 429 -> <<"Rate limit exceeded">>
                   [] OTHER ->
                        IF BodyMessage(r) # Null
                        THEN <<BodyMessage(r)[1]>>
                        ELSE <<"Weather API error: ", ToString(Fetched(r).status)>>

C8_Witness ==
    /\ Done(1) /\ GotResponse(1)
    /\ Fetched(1).status = 401
    /\ BodyMessage(1) = Some("API key is invalid.")
    /\ Outcome(1) = WeatherApiUpstreamError(<<"Invalid API key">>)

\* C9: when the fetch rejects, getWeather throws WeatherApiUpstreamError
\* (never WeatherApiNotFoundError, never another error) whose message is
\* "Failed to connect to weather service: " followed by the fault's message,
\* or by "Unknown error" when the fault is not an Error and so has none.
C9_FetchFaultIsUpstreamError ==
    \A r \in Reqs : (req[r].fetched # Null /\ Fetched(r).settled = "rejected") =>
        /\ Done(r)
        /\ Outcome(r).kind = "WeatherApiUpstreamError"
        /\ Len(Outcome(r).message) = 2
        /\ Outcome(r).message[1] = "Failed to connect to weather service: "
        /\ Outcome(r).message[2] =
              IF Fetched(r).reason.isError
              THEN Fetched(r).reason.message ELSE "Unknown error"

C9_Witness ==
    /\ req[1].fetched # Null
    /\ Fetched(1).settled = "rejected"
    /\ Fetched(1).reason.message = "getaddrinfo ENOTFOUND api.weatherapi.com"
    /\ Response(1).status = 502

\* C10: the response to a request whose getWeather threw
\* WeatherApiUpstreamError is 502 with the one fixed body, whatever the
\* error's message: no part of the message is in the response.
C10_UpstreamDetailHidden ==
    \A r \in Reqs :
        (req[r].outcome # Null /\ Outcome(r).kind = "WeatherApiUpstreamError") =>
            req[r].response =
                Some([status |-> 502, body |-> [error |-> "Upstream weather service error"]])

C10_Witness ==
    /\ req[1].outcome # Null
    /\ Outcome(1) = WeatherApiUpstreamError(<<"API key is invalid.">>)
    /\ Response(1).body = [error |-> "Upstream weather service error"]

(***************************************************************************)
(* Properties of the request state machine and of concurrent requests.     *)
(***************************************************************************)
Validating(r) == req[r].pc = "idle"
Delegating(r) == req[r].pc \in {"fetching", "reading"}
Status(r) == Response(r).status

\* the state of request r is one of the machine's states, with the responses
\* and fetches that state allows
RequestPhase(r) ==
    \/ /\ Validating(r)
       /\ req[r].responses = 0 /\ req[r].fetches = 0 /\ req[r].response = Null
    \/ /\ Delegating(r) /\ Called(r)
       /\ req[r].responses = 0 /\ req[r].fetches = 1 /\ req[r].response = Null
    \/ /\ Done(r) /\ ~Called(r)
       /\ req[r].responses = 1 /\ req[r].fetches = 0 /\ Status(r) = 400
    \/ /\ Done(r) /\ Called(r)
       /\ req[r].responses = 1 /\ req[r].fetches \in {0, 1}
       /\ Status(r) \in {200, 404, 502, 500}

\* the steps of request r: out of Validating to the 400 response, to
\* Delegating or through it to a response; out of Delegating to a response;
\* a request that has responded is never touched again
RequestStep(r) ==
    /\ Validating(r) => \/ Validating(r)'
                        \/ Delegating(r)'
                        \/ Done(r)'
    /\ Delegating(r) => \/ Delegating(r)' /\ req'[r].fetches = req[r].fetches
                        \/ Done(r)' /\ req'[r].fetches = req[r].fetches
    /\ Done(r) => req'[r] = req[r]

\* C11: every request goes from Validating to the 400 response or to
\* Delegating, and from Delegating to exactly one of the 200, 404, 502 and
\* 500 responses; it never sends a second response and never issues a second
\* upstream fetch.
C11_OneResponseOneFetch ==
    /\ [](\A r \in Reqs : RequestPhase(r))
    /\ [][\A r \in Reqs : RequestStep(r)]_vars

C11_Witness ==
    /\ Done(1) /\ ~Called(1) /\ Status(1) = 400
    /\ Done(2) /\ Called(2) /\ Status(2) = 502 /\ req[2].fetches = 1

CityKey(r) == normalizeKey(req[r].city[1])

\* request c is a getWeather call in flight for the city of request r
InFlightFor(c, r) == c # r /\ Delegating(c) /\ Called(r) /\ CityKey(c) = CityKey(r)

\* the cache holds no live entry under the key of the city
MissesCache(city) ==
    LET k == normalizeKey(city)
    IN k \notin DOMAIN store \/ now - store[k].timestamp > ttlMs

\* C12: a getWeather call that misses the cache while another call for the
\* same normalized city is in flight issues its own upstream fetch; each of
\* the two writes the cache when it completes with a snapshot, so the entry
\* in the cache after a completion is the one of the call that completed
\* last.
C12_NotCoalesced ==
    [][\A r \in Reqs :
          /\ (/\ Validating(r) /\ Called(r)'
              /\ MissesCache(req'[r].city[1])
              /\ \E c \in Reqs : InFlightFor(c, r)')
             => (Delegating(r)' /\ req'[r].fetches = 1)
          /\ (Delegating(r) /\ Succeeded(r)')
             => /\ CityKey(r) \in DOMAIN store'
                /\ store'[CityKey(r)] = [data |-> Outcome(r)'.data, timestamp |-> now]
      ]_vars

C12_Witness ==
    /\ Succeeded(1) /\ Succeeded(2)
    /\ req[1].found = Null /\ req[2].found = Null
    /\ req[1].fetches = 1 /\ req[2].fetches = 1
    /\ CityKey(1) = CityKey(2)
    /\ Outcome(1).data # Outcome(2).data
    /\ req[1].storedAt[1] > req[2].storedAt[1]
    /\ store[CityKey(1)] = [data |-> Outcome(1).data, timestamp |-> req[1].storedAt[1]]

Hung(r) == req[r].pc = "hung"

\* C13: a request whose upstream call hangs never responds; every other
\* request that was received (answered from the cache, rejected by the
\* validation, or waiting for an upstream call that completes) eventually
\* has its response, whatever requests hang beside it.
C13_HungBlocksOnlyItself ==
    /\ [](\A r \in Reqs : Hung(r) => req[r].responses = 0 /\ req[r].response = Null)
    /\ [][\A r \in Reqs : Hung(r) => Hung(r)']_vars
    /\ \A r \in Reqs : (~Validating(r)) ~> ((Done(r) /\ req[r].responses = 1) \/ Hung(r))

C13_Witness ==
    /\ Hung(1) /\ req[1].responses = 0
    /\ Done(2) /\ Called(2) /\ CityKey(2) = CityKey(1) /\ req[2].fetches = 1
    /\ Status(2) = 200

\* d has every field of a WeatherResponse
IsSnapshot(d) ==
    /\ DOMAIN d = {"city", "country", "latitude", "longitude", "timezone",
                   "current", "forecast"}
    /\ DOMAIN d.current = {"tempC", "tempF", "condition", "conditionIcon",
                           "windKph", "humidity", "feelsLikeC"}
    /\ \A i \in DOMAIN d.forecast :
          DOMAIN d.forecast[i] = {"date", "minC", "maxC", "minF", "maxF",
                                  "condition", "conditionIcon", "precipChance"}

\* every entry of the store is the whole write of one successful call,
\* under the normalized key of its city
StoreSound ==
    \A k \in DOMAIN store :
        /\ k = trim(toLowerCase(k))
        /\ DOMAIN store[k] = {"data", "timestamp"}
        /\ IsSnapshot(store[k].data)
        /\ store[k].timestamp \in 0..now
        /\ \E r \in Reqs :
              /\ Succeeded(r) /\ req[r].storedAt # Null /\ CityKey(r) = k
              /\ store[k] = [data |-> Outcome(r).data, timestamp |-> req[r].storedAt[1]]

\* the steps that touch the store: the cache lookup that opens a call, the
\* cache write that ends a successful one, clearCache and getCacheSize; a
\* call's step between the two (its fetch settling) leaves the store alone
StoreStep ==
    /\ \A r \in Reqs : (req[r].pc = "fetching" /\ req'[r] # req[r]) => store' = store
    /\ store' # store =>
          \/ \E r \in Reqs : Validating(r) /\ Called(r)' /\ MissesCache(req'[r].city[1])
          \/ \E r \in Reqs : req[r].pc = "reading" /\ Succeeded(r)'
          \/ req' = req /\ lastOp'.op \in {"clearCache", "getCacheSize"}

\* C14: under every interleaving of getWeather calls, clearCache and
\* getCacheSize, every key of the store is a lowercased, trimmed key, mapped
\* to one entry that holds a complete snapshot and its store time, and the
\* cache is read and written before a call's fetch is issued or after it has
\* settled, never in between.
C14_StoreNeverCorrupted ==
    /\ []StoreSound
    /\ [][StoreStep]_vars

C14_Witness ==
    /\ Delegating(1)
    /\ Succeeded(2) /\ req[2].city = Some(<<"A">>) /\ req[2].storedAt # Null
    /\ lastOp.op = "getCacheSize" /\ lastOp.ret = 1
    /\ DOMAIN store = {<<"a">>}

(***************************************************************************)
(* Properties of the cache operations.                                     *)
(***************************************************************************)
\* the keys of the entries of st with now - storedAt <= ttl
LiveKeys(st) == {k \in DOMAIN st : now - st[k].timestamp <= ttlMs}

\* C15: size() returns the number of entries with now - storedAt <= ttl, and
\* the store afterwards holds exactly those entries, unchanged: every
\* expired entry was removed and every live one kept.
C15_SizeCountsLiveAndSweeps ==
    lastOp.op = "size" =>
        /\ lastOp.ret = Cardinality(LiveKeys(lastOp.pre))
        /\ DOMAIN store = LiveKeys(lastOp.pre)
        /\ \A k \in DOMAIN store : store[k] = lastOp.pre[k]
        /\ LiveKeys(store) = DOMAIN store

C15_Witness ==
    /\ lastOp.op = "size"
    /\ Cardinality(DOMAIN lastOp.pre) = 2
    /\ lastOp.ret = 1
    /\ Cardinality(DOMAIN store) = 1

\* C16: has(key) returns true exactly when get(key) at the same instant, on
\* the same store, would return a value, and leaves the store as that get
\* would: an expired entry under the key is evicted, nothing else changes.
C16_HasIsGetPresent ==
    lastOp.op = "has" =>
        LET k == normalizeKey(lastOp.key)
            pre == lastOp.pre
            got == Cache_get(pre, lastOp.key, now, ttlMs)
        IN /\ lastOp.ret = (got.ret # Null)
           /\ store = got.store
           /\ lastOp.ret = (k \in LiveKeys(pre))
           /\ OthersUntouched(pre, store, k)
           /\ k \in DOMAIN store <=> k \in LiveKeys(pre)

C16_Witness ==
    /\ lastOp.op = "has"
    /\ lastOp.ret = FALSE
    /\ PreEntry # Null
    /\ normalizeKey(lastOp.key) \notin DOMAIN store
    /\ Cardinality(DOMAIN store) = 1

\* C17: after clear(), whatever the operations before it, the store is
\* empty, and until a later set it stays empty: size() is 0 and get (and has)
\* of every key, the previously stored ones included, finds nothing.
C17_ClearEmptiesUntilSet ==
    /\ [](lastOp.op = "clear" => store = EmptyStore)
    /\ []((lastOp.op \in {"get", "has", "size"} /\ lastOp.cleared # Null) =>
             /\ lastOp.pre = EmptyStore /\ store = EmptyStore
             /\ lastOp.op = "size" => lastOp.ret = 0
             /\ lastOp.op = "get" => lastOp.ret = Null
             /\ lastOp.op = "has" => lastOp.ret = FALSE)
    /\ [][(store = EmptyStore /\ lastOp'.op # "set") =>
             /\ store' = EmptyStore
             /\ lastOp'.op = "size" => lastOp'.ret = 0
             /\ lastOp'.op = "get" => lastOp'.ret = Null
             /\ lastOp'.op = "has" => lastOp'.ret = FALSE
         ]_vars

C17_Witness ==
    /\ lastOp.op = "get"
    /\ lastOp.cleared # Null
    /\ Cardinality(lastOp.cleared[1]) = 2
    /\ normalizeKey(lastOp.key) \in lastOp.cleared[1]
    /\ now = 0
    /\ lastOp.ret = Null

\* C18: delete(key) removes the entry under the normalized key if there is
\* one, and returns true exactly when it removed one; the entries under
\* every other key, values and store times, are as before.
C18_DeleteRemovesOnlyItsKey ==
    lastOp.op = "delete" =>
        LET k == normalizeKey(lastOp.key)
            pre == lastOp.pre
        IN /\ k \notin DOMAIN store
           /\ lastOp.ret = (k \in DOMAIN pre)
           /\ lastOp.ret = (store # pre)
           /\ DOMAIN store = DOMAIN pre \ {k}
           /\ \A x \in DOMAIN store :
                 /\ store[x].data = pre[x].data
                 /\ store[x].timestamp = pre[x].timestamp

C18_Witness ==
    /\ lastOp.op = "delete"
    /\ lastOp.key = <<" ", "A", " ">>
    /\ lastOp.ret = TRUE
    /\ DOMAIN lastOp.pre = {<<"a">>, <<"b">>}
    /\ DOMAIN store = {<<"b">>}
    /\ store[<<"b">>] = lastOp.pre[<<"b">>]

\* C19: set(key, value) leaves one entry for the normalized key, holding the
\* value and the time of the set, whatever entry was there before; a get of
\* the key after set(k, v1), set(k, v2) returns v2 as long as no more than
\* the TTL has passed since the second set, and nothing after that.
C19_SetOverwrites ==
    /\ lastOp.op = "set" =>
          LET k == normalizeKey(lastOp.key)
          IN /\ k \in DOMAIN store
             /\ store[k] = [data |-> lastOp.data, timestamp |-> lastOp.at]
             /\ Cardinality({x \in DOMAIN store :
                                normalizeKey(x) = k}) = 1
    /\ (/\ lastOp.op = "get" /\ lastOp.after # Null
        /\ normalizeKey(lastOp.after[1].key) = normalizeKey(lastOp.key)) =>
          LET w == lastOp.after[1]
          IN /\ now - w.at <= ttlMs => lastOp.ret = Some(w.data)
             /\ now - w.at > ttlMs => lastOp.ret = Null

C19_Witness ==
    /\ lastOp.op = "get" /\ lastOp.after # Null
    /\ lastOp.after[1].prev # Null
    /\ lastOp.after[1].prev[1].data # lastOp.after[1].data
    /\ now - lastOp.after[1].prev[1].timestamp > ttlMs
    /\ lastOp.ret = Some(lastOp.after[1].data)

\* C20: the TTL of the cache is the one given to its constructor, 10 minutes
\* (600000 ms) when none is given, and no operation of the cache (get, set,
\* has, delete, clear, size) or of the client (getWeather, clearCache,
\* getCacheSize) changes it.
C20_TtlFixedAtConstruction ==
    /\ [](lastOp.op = "new" =>
             ttlMs = IF lastOp.ttlArg = Null THEN 600000 ELSE lastOp.ttlArg[1])
    /\ [][ttlMs' = ttlMs]_vars

C20_Witness ==
    /\ ttlMs = 600000
    /\ Done(1) /\ Called(1) /\ Succeeded(1) /\ req[1].fetches = 1
    /\ lastOp.op = "delete"
    /\ now > 0
    /\ store = EmptyStore

(***************************************************************************)
(* Properties of the cached snapshots.                                     *)
(***************************************************************************)
\* the operation recorded by this step is named op and addresses key k
Addresses(op, k) == lastOp'.op = op /\ normalizeKey(lastOp'.key) = k

\* what a step does to the entry under key k: it leaves the entry as it is,
\* a set writes a whole new entry, or the entry is removed by clear, by
\* delete, or by a get, has or size that finds it expired
EntryStep(k) ==
    \/ k \in DOMAIN store' /\ store'[k] = store[k]
    \/ /\ k \in DOMAIN store'
       /\ Addresses("set", k)
       /\ store'[k] = [data |-> lastOp'.data, timestamp |-> now]
    \/ /\ k \notin DOMAIN store'
       /\ \/ lastOp'.op = "clear"
          \/ Addresses("delete", k)
          \/ /\ now - store[k].timestamp > ttlMs
             /\ Addresses("get", k) \/ Addresses("has", k) \/ lastOp'.op = "size"

\* C21: an entry stays in the cache, content and store time unchanged, until
\* a get, has or size finds it expired, or delete or clear removes it, or a
\* set replaces it by a whole new entry; a get that hits returns the content
\* of the entry and changes nothing, so the gets between two writes of a key
\* return the same content.
C21_EntryImmutable ==
    [][/\ \A k \in DOMAIN store : EntryStep(k)
       /\ (lastOp'.op = "get" /\ lastOp'.ret # Null) =>
             /\ normalizeKey(lastOp'.key) \in DOMAIN store
             /\ lastOp'.ret = Some(store[normalizeKey(lastOp'.key)].data)
             /\ store' = store
      ]_vars

C21_Witness ==
    /\ lastOp.op = "get" /\ lastOp.after # Null
    /\ lastOp.after[1].prev # Null
    /\ lastOp.after[1].prev[1].data # lastOp.after[1].data
    /\ now > lastOp.after[1].at
    /\ lastOp.ret = Some(lastOp.after[1].data)
    /\ store = lastOp.pre

(***************************************************************************)
(* Properties of the handler's call of getWeather and of the client's      *)
(* cache.                                                                  *)
(***************************************************************************)
\* the query value passes the four checks of the handler
ValidInput(q) ==
    /\ q.type = "string"
    /\ TrimmedLength(q.value) \in 1..100
    /\ ~HasDisallowedChar(q.value)

\* s without its leading and trailing whitespace
Trimmed(s) == SubSeq(s, LeadingBlanks(s) + 1, Len(s) - TrailingBlanks(s))

\* the payload of the response the request's fetch resolved with
UpstreamData(r) == Fetched(r).body.json.data[1]

\* C22: a request with valid input has called getWeather, once, with the
\* query value without its surrounding whitespace, and has issued at most
\* one fetch; when that call missed the cache and succeeded, the cache holds,
\* under the normalized city argument, the normalized upstream payload the
\* call returned, stored at the time of the return, and a get of the city
\* finds it.
C22_TrimmedCallThenCached ==
    \A r \in Reqs :
        /\ (req[r].query # Null /\ ValidInput(req[r].query[1])) =>
              /\ req[r].city = Some(Trimmed(req[r].query[1].value))
              /\ req[r].fetches <= 1
        /\ (req[r].query # Null /\ ~ValidInput(req[r].query[1])) => ~Called(r)
        /\ (Succeeded(r) /\ req[r].fetches = 1) =>
              LET city == req[r].city[1]
                  d == normalizeResponse(UpstreamData(r))
              IN /\ Outcome(r).data = d
                 /\ normalizeKey(city) \in DOMAIN store
                 /\ store[normalizeKey(city)] = [data |-> d, timestamp |-> now]
                 /\ Cache_get(store, city, now, ttlMs) = [ret |-> Some(d), store |-> store]

C22_Witness ==
    /\ req[1].query = Some(QString(<<" ">> \o Repeat("A", 100) \o <<" ">>))
    /\ req[1].city = Some(Repeat("A", 100))
    /\ Succeeded(1) /\ req[1].fetches = 1
    /\ DOMAIN store = {Repeat("a", 100)}

\* the step is a call of the client's clearCache / getCacheSize
ClientCall(op) == lastOp'.op = op /\ req' = req /\ now' = now

Quiet == \A r \in Reqs : ~Delegating(r)

\* C23: getCacheSize() returns the number of cities with a live entry in the
\* client's cache; clearCache() empties that cache; and from a clearCache()
\* made with no request in flight the cache stays empty until the next
\* getWeather call: getCacheSize() returns 0 and that call, whatever its
\* city, issues an upstream fetch.
C23_ClientCacheLifecycle ==
    [][/\ ClientCall("getCacheSize") =>
             /\ lastOp'.ret = Cardinality(LiveKeys(store))
             /\ DOMAIN store' = LiveKeys(store)
       /\ ClientCall("clearCache") => store' = EmptyStore
       /\ (store = EmptyStore /\ Quiet) =>
             /\ store' = EmptyStore
             /\ ClientCall("getCacheSize") => lastOp'.ret = 0
             /\ \A r \in Reqs :
                   (Validating(r) /\ Called(r)') =>
                       (Delegating(r)' /\ req'[r].fetches = 1)
      ]_vars

C23_Witness ==
    /\ lastOp.op = "clearCache"
    /\ Succeeded(1) /\ req[1].fetches = 1
    /\ req[2].prior = {1}
    /\ req[2].found = Null
    /\ req[2].fetches = 1

(***************************************************************************)
(* normalizeResponse applied to upstream payloads: forecasts of 0 to       *)
(* MaxDays days, temperatures in tenths of a degree, with pairs of         *)
(* Celsius and Fahrenheit values that agree and pairs that do not.         *)
(***************************************************************************)
TempPairs == {[c |-> 55, f |-> 419], [c |-> 55, f |-> 0]}
Chances == {10, 35}

UpstreamDays ==
    {[date |-> date,
      day |-> [mintemp_c |-> lo.c, mintemp_f |-> lo.f,
               maxtemp_c |-> 85, maxtemp_f |-> 473,
               condition |-> [text |-> "Sunny", icon |-> "//cdn/113.png"],
               daily_chance_of_rain |-> rain, daily_chance_of_snow |-> snow]] :
        date \in {"2024-01-15", "2024-01-16"}, lo \in TempPairs,
        rain \in Chances, snow \in Chances}

Forecasts == UNION {[1..n -> UpstreamDays] : n \in 0..MaxDays}

UpstreamPayloads ==
    {[location |-> [name |-> name, country |-> "United States of America",
                    lat |-> 4236, lon |-> -7106, tz_id |-> "America/New_York"],
      current |-> [temp_c |-> t.c, temp_f |-> t.f,
                   condition |-> [text |-> "Partly cloudy", icon |-> "//cdn/116.png"],
                   wind_kph |-> 201, humidity |-> 65, feelslike_c |-> 25],
      forecast |-> [forecastday |-> days]] :
        name \in {"Boston", "boston "}, t \in TempPairs, days \in Forecasts}

InitNormalize ==
    /\ store = EmptyStore
    /\ ttlMs = MaxTtl
    /\ now = 0
    /\ lastOp \in {[op |-> "payload", data |-> data] : data \in UpstreamPayloads}
    /\ req = [r \in Reqs |-> IdleReq]
    /\ api = IdleCall
    /\ page = NoPage
    /\ app = IdleApp

Normalize ==
    /\ lastOp.op = "payload"
    /\ lastOp' = [op |-> "normalizeResponse", data |-> lastOp.data,
                  ret |-> normalizeResponse(lastOp.data)]
    /\ UNCHANGED <<store, ttlMs, now, req, api, page, app>>

SpecNormalize == InitNormalize /\ [][Normalize]_vars

\* C24: the forecast of the snapshot has one day per upstream forecast day,
\* in the upstream order, and a day's precipChance is the larger of the
\* upstream day's chance of rain and chance of snow.
C24_ForecastDaysInOrder ==
    lastOp.op = "normalizeResponse" =>
        LET days == lastOp.data.forecast.forecastday
            out == lastOp.ret.forecast
        IN /\ Len(out) = Len(days)
           /\ \A i \in 1..Len(days) :
                 LET rain == days[i].day.daily_chance_of_rain
                     snow == days[i].day.daily_chance_of_snow
                 IN /\ out[i].date = days[i].date
                    /\ out[i].minC = days[i].day.mintemp_c
                    /\ out[i].precipChance = IF rain >= snow THEN rain ELSE snow

C24_Witness ==
    /\ lastOp.op = "normalizeResponse"
    /\ Len(lastOp.ret.forecast) = 2
    /\ lastOp.data.forecast.forecastday[1].date = "2024-01-16"
    /\ lastOp.data.forecast.forecastday[1].day.daily_chance_of_rain = 10
    /\ lastOp.data.forecast.forecastday[1].day.daily_chance_of_snow = 35
    /\ lastOp.data.forecast.forecastday[2].date = "2024-01-15"
    /\ lastOp.data.forecast.forecastday[2].day.daily_chance_of_rain = 35
    /\ lastOp.data.forecast.forecastday[2].day.daily_chance_of_snow = 10
    /\ lastOp.ret.forecast[1].date = "2024-01-16"
    /\ lastOp.ret.forecast[1].precipChance = 35
    /\ lastOp.ret.forecast[2].precipChance = 35

\* C25: every location field and every current-conditions field of the
\* snapshot is the upstream field of its name, and so are each day's
\* temperatures and condition: tempC is temp_c and tempF is temp_f, minC,
\* minF, maxC, maxF are mintemp_c, mintemp_f, maxtemp_c, maxtemp_f, also for
\* an upstream pair of values that do not agree.
C25_FieldsCopiedVerbatim ==
    lastOp.op = "normalizeResponse" =>
        LET in == lastOp.data
            out == lastOp.ret
        IN /\ out.city = in.location.name
           /\ out.country = in.location.country
           /\ out.latitude = in.location.lat
           /\ out.longitude = in.location.lon
           /\ out.timezone = in.location.tz_id
           /\ out.current.tempC = in.current.temp_c
           /\ out.current.tempF = in.current.temp_f
           /\ out.current.condition = in.current.condition.text
           /\ out.current.conditionIcon = in.current.condition.icon
           /\ out.current.windKph = in.current.wind_kph
           /\ out.current.humidity = in.current.humidity
           /\ out.current.feelsLikeC = in.current.feelslike_c
           /\ \A i \in 1..Len(in.forecast.forecastday) :
                 LET day == in.forecast.forecastday[i].day
                 IN /\ out.forecast[i].minC = day.mintemp_c
                    /\ out.forecast[i].minF = day.mintemp_f
                    /\ out.forecast[i].maxC = day.maxtemp_c
                    /\ out.forecast[i].maxF = day.maxtemp_f
                    /\ out.forecast[i].condition = day.condition.text
                    /\ out.forecast[i].conditionIcon = day.condition.icon

C25_Witness ==
    /\ lastOp.op = "normalizeResponse"
    /\ lastOp.data.location.name = "boston "
    /\ lastOp.data.current.temp_c = 55 /\ lastOp.data.current.temp_f = 0
    /\ lastOp.ret.city = "boston "
    /\ lastOp.ret.current.tempC = 55 /\ lastOp.ret.current.tempF = 0
    /\ Len(lastOp.ret.forecast) = 1
    /\ lastOp.ret.forecast[1].minC = 55 /\ lastOp.ret.forecast[1].minF = 0

(***************************************************************************)
(* Front end: calls of fetchWeather, one after the other, over a fetch     *)
(* that rejects or resolves with any of FetchOutcomes.  A call runs to its *)
(* first pending await, then from the fetch settling to the next await,    *)
(* then from the body read to its return or throw.                         *)
(***************************************************************************)
Cities ==
    {<<>>, <<" ">>, <<"\t", " ">>,
     <<"A", "b">>, <<" ", "A", "b", "\t">>, <<"A", " ", "b">>,
     <<"a", ",", "B">>, <<" ", "a", "&", "b">>}

ApiStatuses == {200, 201, 400, 404, 500, 502}
ApiBodies ==
    {Unparseable, JsonBody(Null, Null),
     JsonBody(Some(<<"City parameter cannot be empty">>), Null)}
    \cup {JsonBody(Null, Some(w)) : w \in Snapshots}
FetchOutcomes ==
    {Rejected(f) : f \in Faults}
    \cup {Resolved(status, body) : status \in ApiStatuses, body \in ApiBodies}

\* the call record of fetchWeather(city) at its first await, or at its throw
fetchWeather_called(city) ==
    LET start == fetchWeather_start(city)
    IN IF start.throws # Null
       THEN [pc |-> "done", city |-> Some(city), trimmedCity |-> Null,
             requests |-> <<>>, fetched |-> Null, outcome |-> start.throws]
       ELSE [pc |-> "fetch", city |-> Some(city),
             trimmedCity |-> Some(start.trimmedCity),
             requests |-> <<start.url>>, fetched |-> Null, outcome |-> Null]

\* the call record once fetch(url) has settled with o
fetchWeather_fetched(call, o) ==
    IF o.settled = "rejected"
    THEN [call EXCEPT !.pc = "done", !.fetched = Some(o),
                      !.outcome = Some(fetchWeather_catch)]
    ELSE [call EXCEPT !.pc = "json", !.fetched = Some(o)]

\* the call record once the body of the response has been read
fetchWeather_read(call) ==
    LET response == call.fetched[1]
    IN [call EXCEPT
          !.pc = "done",
          !.outcome =
              Some(IF ~ResponseOk(response.status)
                   THEN fetchWeather_notOk(response.status,
                                           JsonOrNull(response.body),
                                           call.trimmedCity[1])
                   ELSE fetchWeather_ok(response.body))]

FetchWeather(city) ==
    /\ api.pc \in {"idle", "done"}
    /\ api' = fetchWeather_called(city)
    /\ UNCHANGED <<store, ttlMs, now, lastOp, req, page, app>>

FetchWeatherSettles(o) ==
    /\ api.pc = "fetch"
    /\ api' = fetchWeather_fetched(api, o)
    /\ UNCHANGED <<store, ttlMs, now, lastOp, req, page, app>>

FetchWeatherBodyRead ==
    /\ api.pc = "json"
    /\ api' = fetchWeather_read(api)
    /\ UNCHANGED <<store, ttlMs, now, lastOp, req, page, app>>

CallFetchWeather == \E city \in Cities : FetchWeather(city)
SettleFetchWeather == \E o \in FetchOutcomes : FetchWeatherSettles(o)

NextFetch == CallFetchWeather \/ SettleFetchWeather \/ FetchWeatherBodyRead

SpecFetch == Init /\ [][NextFetch]_vars

\* the fetchWeather call has returned or thrown
Returns == api.pc = "done"
\* the argument of the call is empty or whitespace only
BlankCity == TrimmedLength(api.city[1]) = 0
\* the fetch of the call rejected: the request could not be made
ConnectivityFailure == api.fetched # Null /\ api.fetched[1].settled = "rejected"
\* the fetch of the call resolved with a response of the given ok-ness
GotApiResponse(ok) ==
    /\ api.fetched # Null
    /\ api.fetched[1].settled = "resolved"
    /\ (api.fetched[1].status \in 200..299) = ok
Thrown == api.outcome[1]

\* C26 as stated: fetchWeather returns the snapshot or fails with an
\* ApiError whose statusCode is 0 when the request could not be made and
\* otherwise the HTTP status of the non-success response.
C26_SnapshotOrStatusError ==
    Returns =>
        \/ /\ api.outcome[1].kind = "value"
           /\ GotApiResponse(TRUE)
        \/ /\ Thrown.kind = "ApiError"
           /\ IF ConnectivityFailure
              THEN Thrown.statusCode = 0
              ELSE /\ GotApiResponse(FALSE)
                   /\ Thrown.statusCode = api.fetched[1].status

\* C26: a fetchWeather call for a city that is not blank fails with an
\* ApiError of statusCode 0 when its fetch rejected, and with an ApiError
\* whose statusCode is the HTTP status on every non-success response; on a
\* success response it returns the parsed body, or fails with the parser's
\* error, which is not an ApiError, when the body is not JSON.  A call with
\* a blank city fails with an ApiError of statusCode 400 and has no response.
C26_StatusErrorPerOutcome ==
    Returns =>
        /\ BlankCity =>
            /\ Thrown.kind = "ApiError" /\ Thrown.statusCode = 400
            /\ api.fetched = Null
        /\ ConnectivityFailure =>
            Thrown.kind = "ApiError" /\ Thrown.statusCode = 0
        /\ GotApiResponse(FALSE) =>
            Thrown.kind = "ApiError" /\ Thrown.statusCode = api.fetched[1].status
        /\ GotApiResponse(TRUE) =>
            IF api.fetched[1].body.parses
            THEN api.outcome[1] = Returned(api.fetched[1].body.json)
            ELSE api.outcome[1].kind \notin {"value", "ApiError"}
        /\ BlankCity \/ ConnectivityFailure \/ GotApiResponse(FALSE) \/ GotApiResponse(TRUE)

C26_Witness ==
    /\ Returns
    /\ GotApiResponse(FALSE)
    /\ api.fetched[1].status = 500
    /\ ~api.fetched[1].body.parses
    /\ Thrown.kind = "ApiError"
    /\ Thrown.statusCode = 500

\* the character a %XX escape stands for
EscapedChar(h1, h2) ==
    CASE <<h1, h2>> = <<"2", "0">> -> " "
      [] <<h1, h2>> = <<"0", "9">> -> "\t"
      [] <<h1, h2>> = <<"2", "C">> -> ","
      [] <<h1, h2>> = <<"2", "6">> -> "&"
      [] <<h1, h2>> = <<"2", "5">> -> "%"
      [] OTHER -> "?"
\* u with every %XX escape replaced by its character
RECURSIVE PercentDecoded(_)
PercentDecoded(u) ==
    IF u = <<>> THEN <<>>
    ELSE IF Head(u) = "%" /\ Len(u) >= 3
    THEN <<EscapedChar(u[2], u[3])>> \o PercentDecoded(SubSeq(u, 4, Len(u)))
    ELSE <<Head(u)>> \o PercentDecoded(Tail(u))
\* every character of u may stand in a query string as it is
UrlSafe(u) ==
    \A i \in 1..Len(u) :
        u[i] \in {"a", "b", "A", "B", "%", "-", "_", ".", "!", "~", "*", "'", "(", ")"}
                 \cup {"0", "2", "5", "6", "9", "C"}

\* C27: a fetchWeather call with an empty or whitespace-only city has
\* thrown ApiError('Please enter a city name', 400) and has issued no
\* request; a call with any other city has issued one request, to
\* /api/weather?city= followed by the URL-encoded city without its
\* surrounding whitespace.
C27_BlankRejectedElseEncodedUrl ==
    api.pc # "idle" =>
        IF BlankCity
        THEN /\ Returns
             /\ Thrown = ApiError(<<"Please enter a city name">>, 400)
             /\ api.requests = <<>>
             /\ api.fetched = Null
        ELSE /\ Len(api.requests) = 1
             /\ Head(api.requests[1]) = "/api/weather?city="
             /\ UrlSafe(Tail(api.requests[1]))
             /\ PercentDecoded(Tail(api.requests[1])) = Trimmed(api.city[1])

C27_Witness ==
    /\ api.pc = "fetch"
    /\ api.city = Some(<<" ", "a", "&", "b">>)
    /\ api.requests = <<<<"/api/weather?city=", "a", "%", "2", "6", "b">>>>

(***************************************************************************)
(* Front end: the functions of render.ts called in any order on a          *)
(* document whose panels start with any combination of classes.            *)
(***************************************************************************)
ErrorMessages == {<<"City not found">>, fetchWeather_catch.message}

InitRender ==
    /\ store = EmptyStore
    /\ ttlMs = MaxTtl
    /\ now = 0
    /\ lastOp = NoOp
    /\ req = [r \in Reqs |-> IdleReq]
    /\ api = IdleCall
    /\ page \in {[NoPage EXCEPT !.hidden = h] : h \in [Panels -> BOOLEAN]}
    /\ app = IdleApp

\* snapshots with forecasts of 0 to MaxDays days, some with no chance of
\* precipitation
RenderDays ==
    {normalizeDay(ForecastDayOf("2024-01-15", 0, 0)),
     normalizeDay(ForecastDayOf("2024-01-16", 10, 0)),
     normalizeDay(ForecastDayOf("2024-01-17", 0, 35))}
RenderData ==
    {[w EXCEPT !.forecast = f] :
        w \in Snapshots, f \in UNION {[1..n -> RenderDays] : n \in 0..MaxDays}}

InitializeElements ==
    /\ page' = initializeElements(page)
    /\ lastOp' = [op |-> "initializeElements"]
    /\ UNCHANGED <<store, ttlMs, now, req, api, app>>

ShowLoading ==
    /\ page' = showLoading(page)
    /\ lastOp' = [op |-> "showLoading"]
    /\ UNCHANGED <<store, ttlMs, now, req, api, app>>

ShowError ==
    \E message \in ErrorMessages :
        /\ page' = showError(page, message)
        /\ lastOp' = [op |-> "showError"]
        /\ UNCHANGED <<store, ttlMs, now, req, api, app>>

\* the days of the month on which the page is looked at
Todays == {14, 15, 16}

ShowWeatherData ==
    \E data \in RenderData, today \in Todays :
        /\ page' = showWeatherData(page, data, today)
        /\ lastOp' = [op |-> "showWeatherData", data |-> data, today |-> today]
        /\ UNCHANGED <<store, ttlMs, now, req, api, app>>

HideAllStates ==
    /\ page' = hideAllStates(page)
    /\ lastOp' = [op |-> "hideAllStates"]
    /\ UNCHANGED <<store, ttlMs, now, req, api, app>>

NextRender ==
    InitializeElements \/ ShowLoading \/ ShowError \/ ShowWeatherData \/ HideAllStates

SpecRender == InitRender /\ [][NextRender]_vars

\* the panels without the class 'hidden'
Visible == {e \in Panels : ~page.hidden[e]}

\* C28: once initializeElements has been called, the last call of
\* showLoading, showError or showWeatherData has left its own panel visible
\* and the other two hidden, and the last call of hideAllStates has left
\* none visible; so at most one panel is visible after any of these calls.
C28_OnePanelVisible ==
    page.elements =>
        /\ lastOp.op = "showLoading" => Visible = {"loadingState"}
        /\ lastOp.op = "showError" => Visible = {"errorState"}
        /\ lastOp.op = "showWeatherData" => Visible = {"weatherData"}
        /\ lastOp.op = "hideAllStates" => Visible = {}
        /\ lastOp.op \in {"showLoading", "showError", "showWeatherData", "hideAllStates"}
            => Cardinality(Visible) <= 1

C28_Witness ==
    /\ page.elements
    /\ lastOp.op = "showLoading"
    /\ Visible = {"loadingState"}
    /\ page.errorMessage = <<"City not found">>
    /\ page.shown # Null

(***************************************************************************)
(* Failed calls and the cache.                                             *)
(***************************************************************************)
\* the getWeather call of request r has thrown
Failed(r) == Done(r) /\ Called(r) /\ req[r].outcome # Null /\ Outcome(r).kind # "value"

\* the lookup that opened the call of r found an entry under its key and
\* missed: cache.get deleted the expired entry
LookupEvicted(r) == Called(r) /\ req[r].fetches > 0 /\ req[r].found # Null

\* the store holds nothing but what successful calls wrote
OnlySuccessesStored ==
    \A k \in DOMAIN store :
        \E r \in Reqs : /\ Succeeded(r) /\ req[r].storedAt # Null /\ CityKey(r) = k
                        /\ store[k].data = Outcome(r).data

\* the step in which the call of r throws
FailureStep(r) == ~Done(r) /\ Failed(r)'

\* the step in which the call of r looks its city up and misses
MissStep(r) == Validating(r) /\ req'[r].pc = "fetching"

\* C29 as stated: a call that has failed has left the cache exactly as it
\* was: it wrote nothing and it removed nothing.
C29_FailedCallLeavesCache ==
    \A r \in Reqs : Failed(r) => req[r].storedAt = Null /\ ~LookupEvicted(r)

\* C29: a getWeather call that fails adds and changes no entry and removes
\* none but the expired entry of its own city, which its lookup deletes:
\* the step in which it throws leaves the store as it is, the store never
\* holds anything but the results of successful calls, and a later call for
\* the same city fetches again unless the cache then holds a live entry of
\* the city, stored by another call.
C29_FailureNotCached ==
    /\ [](OnlySuccessesStored /\ \A r \in Reqs : Failed(r) => req[r].storedAt = Null)
    /\ [][\A r \in Reqs : FailureStep(r) => store' = store]_vars
    /\ [][\A r \in Reqs : MissStep(r) =>
            LET k == normalizeKey(req'[r].city[1])
            IN /\ DOMAIN store' = DOMAIN store \ {k}
               /\ \A x \in DOMAIN store' : store'[x] = store[x]
               /\ k \in DOMAIN store => now - store[k].timestamp > ttlMs]_vars
    /\ [][\A c \in Reqs :
            (/\ Validating(c) /\ Called(c)'
             /\ \E r \in Reqs : Failed(r) /\ CityKey(r) = normalizeKey(req'[c].city[1])
             /\ MissesCache(req'[c].city[1]))
            => req'[c].pc = "fetching" /\ req'[c].fetches = 1]_vars

C29_Witness ==
    /\ Failed(2)
    /\ LookupEvicted(2)
    /\ Fetched(2).settled = "resolved"
    /\ Outcome(2).kind = "Error"
    /\ Succeeded(1)
    /\ store = EmptyStore

(***************************************************************************)
(* One request with any query, arriving at a server whose cache is empty   *)
(* or holds the entry an earlier request stored at time 0, live (now = 0)  *)
(* or expired (now = MaxTime).                                             *)
(***************************************************************************)
WarmStores ==
    {EmptyStore}
    \cup {Cache_set(EmptyStore, <<"a">>, w, 0) : w \in {normalizeResponse(ApiResponseOf("Boston", 55, 419))}}

InitWarm ==
    /\ store \in WarmStores
    /\ ttlMs = MaxTtl
    /\ now \in {0, MaxTime}
    /\ lastOp = NoOp
    /\ req = [r \in Reqs |-> IdleReq]
    /\ api = IdleCall
    /\ page = NoPage
    /\ app = IdleApp

SpecWarm == InitWarm /\ [][NextRequest]_vars

\* the step in which request r is answered 400
RejectionStep(r) == ~Done(r) /\ Done(r)' /\ req'[r].response[1].status = 400

\* C30: a request answered 400 has not called getWeather and has issued no
\* upstream fetch, and the step that answers it leaves the cache as it is,
\* expired entries included.
C30_RejectedTouchesNothing ==
    /\ [](\A r \in Reqs :
            (Done(r) /\ Status(r) = 400) =>
                /\ ~Called(r)
                /\ req[r].outcome = Null
                /\ req[r].fetches = 0
                /\ req[r].fetched = Null)
    /\ [][\A r \in Reqs : RejectionStep(r) => store' = store]_vars

C30_Witness ==
    /\ Done(1)
    /\ Status(1) = 400
    /\ Response(1).body.error = "City parameter contains invalid characters"
    /\ ~Called(1)
    /\ store # EmptyStore
    /\ now = MaxTime

(***************************************************************************)
(* Expiry counted from the write.                                          *)
(***************************************************************************)
\* the step in which the call of request c is served from the cache
HitStep(c) == Validating(c) /\ Done(c)' /\ req'[c].city # Null

\* C31: a getWeather call served from the cache leaves the store, and with
\* it the store time of the entry, as it is; the entry it is served is the
\* one a call wrote at some time t, and it is served no later than
\* t + ttl, whatever reads (other hits, getCacheSize) came in between.
C31_ExpiryNotSliding ==
    [][\A c \in Reqs :
          HitStep(c) =>
              LET k == normalizeKey(req'[c].city[1])
              IN /\ store' = store
                 /\ k \in DOMAIN store
                 /\ req'[c].outcome = Some(Returned(store[k].data))
                 /\ \E r \in Reqs :
                       /\ Succeeded(r) /\ CityKey(r) = k
                       /\ req[r].storedAt = Some(store[k].timestamp)
                       /\ Outcome(r).data = store[k].data
                       /\ now <= req[r].storedAt[1] + ttlMs
      ]_vars

C31_Witness ==
    /\ Succeeded(1) /\ req[1].storedAt = Some(0)
    /\ Succeeded(2) /\ req[2].fetches = 0
    /\ req[2].found # Null /\ req[2].found[1].timestamp = 0
    /\ lastOp.op = "getCacheSize"
    /\ now = 1
    /\ store[CityKey(1)].timestamp = 0

(***************************************************************************)
(* clearCache while calls are in flight: the server's requests and         *)
(* clearCache, which here also notes which requests had started and which  *)
(* were awaiting their fetch or body when it ran.                          *)
(***************************************************************************)
ClearCacheInFlight ==
    /\ store' = Cache_clear(store)
    /\ lastOp' = [op |-> "clearCache",
                  started |-> {r \in Reqs : req[r].pc # "idle"},
                  inFlight |-> {r \in Reqs : req[r].pc \in {"fetching", "reading"}}]
    /\ UNCHANGED <<ttlMs, now, req, api, page, app>>

NextInFlight == Request \/ Settle \/ Read \/ ClearCacheInFlight

SpecInFlight == Init /\ [][NextInFlight]_vars

\* C32: a call that was awaiting its fetch or body when clearCache ran and
\* then completes with a snapshot writes it into the cache under its city,
\* with the time of the write, although the cache was cleared after its
\* fetch was issued.
C32_InFlightMissWritesAfterClear ==
    [][\A r \in Reqs :
          (/\ lastOp.op = "clearCache" /\ r \in lastOp.inFlight
           /\ ~Done(r) /\ Succeeded(r)')
          => /\ CityKey(r) \in DOMAIN store'
             /\ store'[CityKey(r)] = [data |-> req'[r].outcome[1].data, timestamp |-> now]
      ]_vars

\* the cache is not empty after clearCache although every request that has
\* started had started before it
C32_Witness ==
    /\ lastOp.op = "clearCache"
    /\ {r \in Reqs : req[r].pc # "idle"} = {1}
    /\ lastOp.started = {1} /\ lastOp.inFlight = {1}
    /\ Succeeded(1)
    /\ store # EmptyStore

\* C33: delete(key) on an entry that has expired but is still in the store
\* returns true and removes it, while has(key) and get(key) at that instant
\* on that store report the key as absent.
C33_DeleteIgnoresExpiry ==
    lastOp.op = "delete" =>
        LET k == normalizeKey(lastOp.key)
        IN (k \in DOMAIN lastOp.pre /\ now - lastOp.pre[k].timestamp > ttlMs) =>
              /\ lastOp.ret = TRUE
              /\ k \notin DOMAIN store
              /\ Cache_has(lastOp.pre, lastOp.key, now, ttlMs).ret = FALSE
              /\ Cache_get(lastOp.pre, lastOp.key, now, ttlMs).ret = Null

C33_Witness ==
    /\ lastOp.op = "delete"
    /\ lastOp.key = <<" ", "A", " ">>
    /\ <<"a">> \in DOMAIN lastOp.pre
    /\ now - lastOp.pre[<<"a">>].timestamp > ttlMs
    /\ lastOp.ret = TRUE
    /\ <<"a">> \notin DOMAIN store

\* the fetch of request r resolved with a success status and a body that
\* is not JSON or lacks the blocks normalizeResponse reads
BadSuccessBody(o) ==
    /\ o.settled = "resolved"
    /\ o.status \in 200..299
    /\ ~o.body.parses \/ o.body.json.data = Null

\* C34: when the upstream answers with a success status and a body that
\* cannot be parsed or normalized, getWeather throws an error that is
\* neither WeatherApiNotFoundError nor WeatherApiUpstreamError, the step
\* leaves the cache as it is, and the response is 500 'Internal server
\* error'.
C34_BadSuccessBodyIs500 ==
    /\ [](\A r \in Reqs :
            (Done(r) /\ req[r].fetched # Null /\ BadSuccessBody(Fetched(r))) =>
                /\ Outcome(r).kind
                       \notin {"value", "WeatherApiNotFoundError", "WeatherApiUpstreamError"}
                /\ req[r].storedAt = Null
                /\ Response(r) = [status |-> 500, body |-> [error |-> "Internal server error"]])
    /\ [][\A r \in Reqs :
            (~Done(r) /\ Done(r)' /\ req'[r].fetched # Null /\ BadSuccessBody(req'[r].fetched[1]))
            => store' = store]_vars

C34_Witness ==
    /\ Done(1)
    /\ req[1].fetched = Some(Resolved(200, JsonBody(ProviderError(Some(1006), Null), Null)))
    /\ Outcome(1).kind = "Error"
    /\ Status(1) = 500
    /\ store # EmptyStore

\* the request r that arrived with the given kind of city parameter
Asked(r, type) == req[r].query # Null /\ req[r].query[1].type = type

\* C35: a request whose city parameter is present but not a single string
\* (a repeated or nested parameter) is answered 400 'Missing required
\* parameter: city', as a request without the parameter is, in the step in
\* which it arrives, and getWeather is not called for it.
C35_NonStringIsMissing ==
    \A r \in Reqs :
        /\ Asked(r, "object") =>
              /\ Done(r)
              /\ req[r].response =
                     Some([status |-> 400, body |-> [error |-> "Missing required parameter: city"]])
              /\ req[r].responses = 1
              /\ ~Called(r)
              /\ req[r].fetches = 0 /\ req[r].outcome = Null
        /\ Asked(r, "undefined") =>
              req[r].response =
                  Some([status |-> 400, body |-> [error |-> "Missing required parameter: city"]])

C35_Witness ==
    /\ Asked(1, "object")
    /\ Done(1)
    /\ Status(1) = 400
    /\ Response(1).body.error = "Missing required parameter: city"
    /\ req[1].city = Null

\* the text a card shows for the precipitation chance of a day, if any
PrecipText(day) == IF day.precipChance = 0 THEN Null ELSE Some(<<day.precipChance, "% rain">>)

\* the card is the one of the forecast day, shown on the given day
CardOf(card, day, today) ==
    /\ card.className = "forecast-card"
    /\ card.condition = day.condition
    /\ card.precip = PrecipText(day)
    /\ card.date = CASE day.date = "2024-01-15" ->
                            (IF today = 15 THEN "Today" ELSE IF today = 14 THEN "Tomorrow" ELSE "Mon")
                     [] day.date = "2024-01-16" ->
                            (IF today = 16 THEN "Today" ELSE IF today = 15 THEN "Tomorrow" ELSE "Tue")
                     [] day.date = "2024-01-17" ->
                            (IF today = 17 THEN "Today" ELSE IF today = 16 THEN "Tomorrow" ELSE "Wed")

\* C39: once the elements are initialized, the forecast list after a
\* showWeatherData call holds one card per forecast day of the snapshot of
\* that call, in the snapshot's order, whatever the list held before; no
\* other call of render.ts changes the list, so after any sequence of calls
\* the list is that of the last snapshot shown.
C39_ForecastListReplaced ==
    /\ []((page.elements /\ lastOp.op = "showWeatherData") =>
            /\ Len(page.forecastList) = Len(lastOp.data.forecast)
            /\ \A i \in 1..Len(page.forecastList) :
                  CardOf(page.forecastList[i], lastOp.data.forecast[i], lastOp.today))
    /\ [][(lastOp'.op # "showWeatherData" \/ ~page.elements)
            => page'.forecastList = page.forecastList]_vars

C39_Witness ==
    /\ page.elements
    /\ lastOp.op = "showWeatherData"
    /\ Len(lastOp.data.forecast) = 1
    /\ Len(page.forecastList) = 1
    /\ page.forecastList[1].date = "Tomorrow"
    /\ page.forecastList[1].precip = Some(<<35, "% rain">>)

(***************************************************************************)
(* Front end: the page of main.ts after init(), driven by submits of the   *)
(* search form and clicks on the retry button, over a fetch that rejects   *)
(* or resolves with any of FetchOutcomes.  A submit needs a form control   *)
(* that is not disabled.  The handlers run one at a time: a click on the   *)
(* retry button comes while no search is in flight (the button belongs to  *)
(* the error panel, which showLoading hides).                              *)
(***************************************************************************)
\* lines 28-47: init()
InitApp ==
    /\ store = EmptyStore
    /\ ttlMs = MaxTtl
    /\ now = 0
    /\ lastOp = NoOp
    /\ req = [r \in Reqs |-> IdleReq]
    /\ api = IdleCall
    /\ page = hideAllStates(initializeElements(NoPage))
    /\ app = IdleApp

\* a search has called fetchWeather, which has not returned or thrown yet
SearchInFlight == api.pc \in {"fetch", "json"}

\* the values of the city input at a submit
InputValues == {<<>>, <<"\t", " ">>, <<"A", "b">>, <<" ", "a", "&", "b">>}

\* searchWeather(city) up to its await of fetchWeather(city), and through
\* to its end when that call throws at once
searchWeather(a, p, city) ==
    LET call == fetchWeather_called(city)
        a1 == searchWeather_start(a, city)
        p1 == showLoading(p)
    IN IF call.pc = "done"
       THEN LET end == searchWeather_threw(a1, p1, call.outcome[1])
            IN [api |-> call, app |-> end.app, page |-> end.page]
       ELSE [api |-> call, app |-> a1, page |-> p1]

\* the submit event of the form, with value in the city input
HandleSearch ==
    \E value \in InputValues :
        /\ ~app.disabled.cityInput \/ ~app.disabled.searchButton
        /\ LET city == handleSearch(value)
               next == IF city = Null
                       THEN [api |-> api, app |-> app, page |-> page]
                       ELSE searchWeather(app, page, city[1])
           IN /\ api' = next.api
              /\ app' = next.app
              /\ page' = next.page
        /\ lastOp' = [op |-> "handleSearch", value |-> value, app |-> app,
                      api |-> api, page |-> page]
        /\ UNCHANGED <<store, ttlMs, now, req>>

\* the click event of the retry button
HandleRetry ==
    /\ ~SearchInFlight
    /\ LET city == handleRetry(app)
           next == IF city = Null
                   THEN [api |-> api, app |-> app, page |-> page]
                   ELSE searchWeather(app, page, city[1])
       IN /\ api' = next.api
          /\ app' = next.app
          /\ page' = next.page
    /\ lastOp' = [op |-> "handleRetry", app |-> app, api |-> api, page |-> page]
    /\ UNCHANGED <<store, ttlMs, now, req>>

\* fetch(url) settles: fetchWeather goes on to read the body, or throws and
\* searchWeather runs to its end
SearchFetchSettles ==
    \E o \in FetchOutcomes :
        /\ api.pc = "fetch"
        /\ LET call == fetchWeather_fetched(api, o)
               end == IF call.pc = "done"
                      THEN searchWeather_threw(app, page, call.outcome[1])
                      ELSE [app |-> app, page |-> page]
           IN /\ api' = call
              /\ app' = end.app
              /\ page' = end.page
        /\ lastOp' = [op |-> "fetch", app |-> app, api |-> api, page |-> page]
        /\ UNCHANGED <<store, ttlMs, now, req>>

\* the body is read: fetchWeather returns or throws and searchWeather runs
\* to its end
SearchBodyRead ==
    \E today \in Todays :
        /\ api.pc = "json"
        /\ LET call == fetchWeather_read(api)
               outcome == call.outcome[1]
               end == IF outcome.kind = "value"
                      THEN searchWeather_returned(app, page, outcome.data, today)
                      ELSE searchWeather_threw(app, page, outcome)
           IN /\ api' = call
              /\ app' = end.app
              /\ page' = end.page
        /\ lastOp' = [op |-> "json", app |-> app, api |-> api, page |-> page,
                      today |-> today]
        /\ UNCHANGED <<store, ttlMs, now, req>>

NextApp == HandleSearch \/ HandleRetry \/ SearchFetchSettles \/ SearchBodyRead

SpecApp == InitApp /\ [][NextApp]_vars

\* the last search has run to its end and none has begun since
SearchCompleted == api.pc = "done"

\* C36: whenever searchWeather has completed, uiState is 'success' with
\* weatherData set and errorMessage null, or it is 'error' with weatherData
\* null and errorMessage a non-empty string; it is never 'loading'.
C36_CompletedStateConsistent ==
    SearchCompleted =>
        /\ app.uiState # "loading"
        /\ \/ /\ app.uiState = "success"
              /\ app.weatherData # Null
              /\ app.errorMessage = Null
           \/ /\ app.uiState = "error"
              /\ app.weatherData = Null
              /\ app.errorMessage # Null
              /\ Len(app.errorMessage[1]) > 0

\* a search that fails after one that succeeded: the data shown before is
\* dropped
C36_Witness ==
    /\ SearchCompleted
    /\ lastOp.op \in {"fetch", "json"}
    /\ lastOp.app.weatherData # Null
    /\ app.uiState = "error"
    /\ app.weatherData = Null

\* both form controls carry this disabled flag
FormDisabled(a, disabled) ==
    a.disabled.cityInput = disabled /\ a.disabled.searchButton = disabled

SameAsBefore == app = lastOp.app /\ api = lastOp.api /\ page = lastOp.page

\* C38: the state holds the city of a search when fetchWeather is called
\* for it and from then on, whether the search fails or not; a retry then
\* issues the request for that city; a retry when no search was ever made,
\* and a submit of a blank input, issue no request and change nothing.
C38_RetryLastSearchedCity ==
    /\ api.pc # "idle" =>
          /\ app.atFetch # Null
          /\ app.atFetch[1].lastSearchedCity = api.city
          /\ app.lastSearchedCity = api.city
    /\ lastOp.op = "handleRetry" /\ lastOp.api.pc # "idle" =>
          /\ api.city = lastOp.api.city
          /\ api.pc = "fetch"
          /\ api.requests = <<fetchWeather_start(lastOp.api.city[1]).url>>
    /\ lastOp.op = "handleRetry" /\ lastOp.api.pc = "idle" => SameAsBefore
    /\ lastOp.op = "handleSearch" /\ trim(lastOp.value) = <<>> => SameAsBefore

\* a retry after a search that failed
C38_Witness ==
    /\ lastOp.op = "handleRetry"
    /\ lastOp.api.pc = "done"
    /\ lastOp.api.outcome[1].kind = "ApiError"
    /\ api.pc = "fetch"
    /\ api.city = lastOp.api.city

====
